---------------------------- MODULE Spec2Model ----------------------------
(***************************************************************************)
(* A model of xi-tui: the diff engine that patches the line cache          *)
(* (src/op.rs), the view with its window, rendering and click translation  *)
(* (src/widgets/view/view.rs), the editor that owns the views              *)
(* (src/widgets/editor.rs) and the key-chord parser (src/core/config.rs).  *)
(*                                                                         *)
(* Ten specifications share the variables below:                           *)
(*   SpecDiff    one line cache patched by update notifications, op by op  *)
(*   SpecRender  the escaping pass over one line, character by character   *)
(*   SpecStyle   the style injection into one escaped line                 *)
(*   SpecView    one view driven through its methods                       *)
(*   SpecScreen  the cursor and the clicks of one view on the screen       *)
(*   SpecEditor  the editor, its views, the delayed events and the replies *)
(*   SpecInput   the editor handling the events of the terminal            *)
(*   SpecOrder   the updates of the engine and the polls of the editor     *)
(*   SpecKeys    the parser of one key-chord descriptor                    *)
(*   SpecBindings the construction of the keymap from a list of entries    *)
(* Each specification keeps the variables of the others at their initial   *)
(* value.                                                                  *)
(***************************************************************************)
EXTENDS Integers, Sequences, FiniteSets, TLC

VARIABLES
    \* ---- diff engine (SpecDiff)
    cache,        \* lines of the line cache (the old_lines of an update)
    dpc,          \* "idle" | "apply" | "done" | "panic": position in the update
    old_ix,       \* old_line_index threaded through Op::apply
    new_lines,    \* the new_lines vector being built
    last,         \* the op applied last, the old index and length it met
    consumed,     \* sum of the Copy, Skip and Update counts applied so far
    emitted,      \* sum of the Copy, Update, Invalidate counts and Ins lengths
    \* ---- escaping pass of the renderer (SpecRender)
    rline,        \* the line being rendered
    tab_size,     \* cfg.tab_size of the view
    rpc,          \* "scan" | "done" | "panic": position in the pass
    rix,          \* number of characters of the line scanned so far
    position,     \* the running column of the pass
    text,         \* the escaped text built so far
    lastc,        \* the character scanned last, the column and length it met
    \* ---- one view driven through its methods (SpecView)
    view,         \* the View: cache, cursor, window, cfg
    vop,          \* the method called last, whether it recomputed the
                  \* window, and the scroll request it sent
    \* ---- the editor (SpecEditor)
    views,          \* Editor::views, the map: view id -> View
    view_order,     \* Editor::views, the insertion order the IndexMap keeps
    current_view,   \* Editor::current_view
    size,           \* Editor::size: <<columns, rows>>
    delayed_events, \* Editor::delayed_events
    xi_reply_rx,    \* the replies sent into the channel and not yet received
    clipboard,      \* Editor::clipboard
    styles,         \* Editor::styles, the ids defined
    requested,      \* number of views the engine has created: ids 1..requested
    sent,           \* number of view notifications the engine has sent
    hist,           \* per notification sent: its view, whether it was queued
                    \* on arrival, whether a poll has handled it again after
                    \* the NewView reply of its view was received, and how
                    \* many times it was applied to a view
    \* ---- style injection (SpecStyle)
    sline,        \* the line: its characters and its style runs
    stab,         \* cfg.tab_size of the view
    sstyles,      \* the ids of the style table
    spc,          \* "escape" | "sequences" | "insert" | "done", or the panic
    sescaped,     \* the bytes of the escaped text, before any insertion
    sall,         \* the vector get_style_sequences returned
    sseqs,        \* what is left of it to drain
    stext,        \* the bytes of text, with the sequences inserted so far
    \* ---- cursor and clicks on the screen (SpecScreen)
    scr,          \* the View
    sout,         \* what the method called last wrote or sent
    \* ---- the input of the editor (SpecInput)
    inp,          \* the terminal event handled last and what became of it
    \* ---- the key-chord parser (SpecKeys, SpecBindings)
    kparse,       \* a descriptor and the event parse_keys returns for it
    kcfg,         \* the list of entries, the loop over it, and the keymap
    \* ---- the command prompt (SpecPrompt)
    prompt        \* the buffer, the event handled last, the buffer it met
                  \* and the command it returned

diffVars == <<cache, dpc, old_ix, new_lines, last, consumed, emitted>>
renderVars == <<rline, tab_size, rpc, rix, position, text, lastc>>
viewVars == <<view, vop>>
editorVars == <<views, view_order, current_view, size, delayed_events,
                xi_reply_rx, clipboard, styles, requested, sent, hist>>
styleVars == <<sline, stab, sstyles, spc, sescaped, sall, sseqs, stext>>
screenVars == <<scr, sout>>
inputVars == <<inp>>
keyVars == <<kparse, kcfg>>
promptVars == <<prompt>>

vars == <<diffVars, renderVars, viewVars, editorVars, styleVars, screenVars, inputVars, keyVars, promptVars>>

notDiff == <<renderVars, viewVars, editorVars, styleVars, screenVars, inputVars, keyVars, promptVars>>
notRender == <<diffVars, viewVars, editorVars, styleVars, screenVars, inputVars, keyVars, promptVars>>
notView == <<diffVars, renderVars, editorVars, styleVars, screenVars, inputVars, keyVars, promptVars>>
notEditor == <<diffVars, renderVars, viewVars, styleVars, screenVars, inputVars, keyVars, promptVars>>
notStyle == <<diffVars, renderVars, viewVars, editorVars, screenVars, inputVars, keyVars, promptVars>>
notScreen == <<diffVars, renderVars, viewVars, editorVars, styleVars, inputVars, keyVars, promptVars>>
notInput == <<diffVars, renderVars, viewVars, styleVars, screenVars, keyVars, promptVars>>
notKeys == <<diffVars, renderVars, viewVars, editorVars, styleVars, screenVars, inputVars, promptVars>>
notPrompt == <<diffVars, renderVars, viewVars, editorVars, styleVars, screenVars, inputVars, keyVars>>

Min(a, b) == IF a <= b THEN a ELSE b
Max(a, b) == IF a >= b THEN a ELSE b

(***************************************************************************)
(* Bounds of the model.                                                    *)
(***************************************************************************)
\* Longest new_lines vector an update builds.
MaxLines == 2
\* Largest count n of an op.
MaxN == 2

(***************************************************************************)
(* Lines.  A line has a text (a sequence of character codes), cursor       *)
(* markers and style runs.                                                 *)
(***************************************************************************)
StyleRun(o, l, s) == [offset |-> o, length |-> l, style_id |-> s]

MkLine(t, c, s) == [text |-> t, cursor |-> c, styles |-> s, is_valid |-> TRUE]

\* Line::invalid(): the placeholder pushed by an Invalidate op.
InvalidLine == [text |-> <<>>, cursor |-> <<>>, styles |-> <<>>, is_valid |-> FALSE]

\* Two lines the engine sends that differ in text, cursor and styles.
LineA == MkLine(<<97>>, <<>>, <<>>)
LineB == MkLine(<<98>>, <<0>>, <<StyleRun(0, 1, 1)>>)
WireLines == {LineA, LineB}

SeqsUpTo(S, n) == UNION {[1..m -> S] : m \in 0..n}

(***************************************************************************)
(* Ops (src/op.rs).  lines is an Option: None when the wire message has   *)
(* no "lines" member, Some(ls) otherwise.                                  *)
(***************************************************************************)
None == <<>>
Some(x) == <<x>>
Unwrap(o) == o[1]

MkOp(t, n, ls) == [op |-> t, n |-> n, lines |-> ls]

\* The line lists of the ops: neighbours differ, so that a line taken from
\* the wrong position of a list is a different line.
WireLineLists ==
    {ls \in SeqsUpTo(WireLines, MaxN) : \A i \in 1..(Len(ls) - 1) : ls[i] # ls[i + 1]}

\* The ops the engine sends: copy, skip and invalidate carry a count,
\* update carries a count and at least that many lines, ins carries its
\* lines and their number.
WireOps ==
    {MkOp(t, n, None) : t \in {"copy", "skip", "invalidate"}, n \in 0..MaxN}
    \cup UNION {{MkOp("update", n, Some(ls)) : n \in 0..Len(ls)} : ls \in WireLineLists}
    \cup {MkOp("ins", Len(ls), Some(ls)) : ls \in WireLineLists}

\* Outcome of one Op::apply call: the returned index, the new_lines vector,
\* and whether the call panicked (index out of bounds, unwrap of None).
Outcome(ix, nl, p) == [index |-> ix, new_lines |-> nl, panic |-> p]

\* ApplyCpy with the loop stopping one line early.
ApplyCpyShort(n, old_lines, k, nl) ==
    LET new_index == k + n
        stop == Min(new_index - 1, Len(old_lines))
    IN  Outcome(new_index,
                nl \o [i \in 1..Max(stop - k, 0) |-> old_lines[k + i]],
                new_index > k /\ new_index > Len(old_lines))

\* OpType::Cpy: for i in old_line_index..new_index push old_lines[i].
\* old_lines[i] panics at the first i >= old_lines.len().
ApplyCpy(n, old_lines, k, nl) ==
    LET new_index == k + n
        stop == Min(new_index, Len(old_lines))
    IN  Outcome(new_index,
                nl \o [i \in 1..Max(stop - k, 0) |-> old_lines[k + i]],
                new_index > k /\ new_index > Len(old_lines))

\* OpType::Skip
ApplySkip(n, old_lines, k, nl) == Outcome(k + n, nl, FALSE)

\* OpType::Invalidate: n placeholder lines, and the index advanced by n.
ApplyInvalidate(n, old_lines, k, nl) ==
    Outcome(k + n, nl \o [i \in 1..n |-> InvalidLine], FALSE)

\* The line an Update pushes for old index i (0-based): the old line with
\* the cursor and styles of lines[i].
UpdatedLine(old_lines, lines, i) ==
    [old_lines[i + 1] EXCEPT !.cursor = lines[i + 1].cursor,
                             !.styles = lines[i + 1].styles]

\* OpType::Update: for i in old_line_index..new_index, old_lines[i] and
\* lines[i] are both indexed by the old index i.
ApplyUpdate(n, oplines, old_lines, k, nl) ==
    IF oplines = None THEN Outcome(k, nl, TRUE)
    ELSE
    LET lines == Unwrap(oplines)
        new_index == k + n
        stop == Min(new_index, Min(Len(old_lines), Len(lines)))
    IN  Outcome(new_index,
                nl \o [i \in 1..Max(stop - k, 0) |-> UpdatedLine(old_lines, lines, k + i - 1)],
                new_index > k /\ new_index > Min(Len(old_lines), Len(lines)))

\* OpType::Ins: all the lines, and the index advanced by n.
ApplyIns(n, oplines, old_lines, k, nl) ==
    IF oplines = None THEN Outcome(k, nl, TRUE)
    ELSE Outcome(k + n, nl \o Unwrap(oplines), FALSE)

\* Op::apply
Apply(op, old_lines, k, nl) ==
    CASE op.op = "copy"       -> ApplyCpy(op.n, old_lines, k, nl)
      [] op.op = "skip"       -> ApplySkip(op.n, old_lines, k, nl)
      [] op.op = "invalidate" -> ApplyInvalidate(op.n, old_lines, k, nl)
      [] op.op = "update"     -> ApplyUpdate(op.n, op.lines, old_lines, k, nl)
      [] op.op = "ins"        -> ApplyIns(op.n, op.lines, old_lines, k, nl)

\* Number of old lines an op is specified to consume, and of lines it is
\* specified to emit (bookkeeping of what was sent, not of what apply did).
ConsumeCount(op) == IF op.op \in {"copy", "skip", "update"} THEN op.n ELSE 0
EmitCount(op) ==
    CASE op.op \in {"copy", "update", "invalidate"} -> op.n
      [] op.op = "ins" -> Len(Unwrap(op.lines))
      [] OTHER -> 0

NoOp == [op |-> "none", n |-> 0, lines |-> None]
NoLast == [op |-> NoOp, k |-> 0, len |-> 0]

(***************************************************************************)
(* The renderer's escaping pass (src/widgets/view/view.rs).  Characters    *)
(* are their code points.  Columns are u16 in the code; the texts of the   *)
(* model are far too short to reach 65535.                                 *)
(***************************************************************************)
\* Longest line text.
MaxText == 3
\* Largest tab size.
MaxTab == 4

TAB == 9
CARET == 94
SPACE == 32

\* The characters of the model's lines: the ends of the three control
\* ranges, the tab between them, and characters outside them.
Chars == {0, 2, 8, TAB, 10, 31, 65, 127, 233}

\* The pattern '\x00'..='\x08' | '\x0a'..='\x1f' | '\x7f'.
IsControl(c) == (0 <= c /\ c <= 8) \/ (10 <= c /\ c <= 31) \/ c = 127

\* a ^ b on integers, bit by bit.
RECURSIVE Xor(_, _)
Xor(a, b) ==
    IF a = 0 /\ b = 0 THEN 0
    ELSE (((a % 2) + (b % 2)) % 2) + (2 * Xor(a \div 2, b \div 2))

\* The caret letter with the XOR replaced by an addition.
CaretLetterAdd(c) == (c % 256) + 64

\* (c as u8 ^ 0x40u8) as char
CaretLetter(c) == Xor(c % 256, 64)

\* tab_width_at_position without the wrap at a tab stop's own column.
TabWidthNoStop(ts, pos) == (ts - (pos % ts)) % ts

\* View::tab_width_at_position (ts is cfg.tab_size, not 0: the remainder by
\* 0 panics).
TabWidthAtPosition(ts, pos) == ts - (pos % ts)

\* translate_char_width counting DEL as one column.
TranslateCharWidthNoDel(ts, pos, c) ==
    CASE c # 127 /\ IsControl(c) -> 2
      [] c = TAB -> TabWidthAtPosition(ts, pos)
      [] OTHER -> 1

\* View::translate_char_width
TranslateCharWidth(ts, pos, c) ==
    CASE IsControl(c) -> 2
      [] c = TAB -> TabWidthAtPosition(ts, pos)
      [] OTHER -> 1

\* The fold of render_cursor: the column of the character at index n, i.e.
\* chars().take(n).fold(0, |acc, c| acc + translate_char_width(acc, c)).
RECURSIVE FoldWidth(_, _, _)
FoldWidth(ts, chars, n) ==
    IF n = 0 \/ chars = <<>> THEN 0
    ELSE LET m == Min(n, Len(chars))
             acc == FoldWidth(ts, chars, m - 1)
         IN  acc + TranslateCharWidth(ts, acc, chars[m])

Spaces(n) == [i \in 1..n |-> SPACE]

NoChar == [c |-> -1, pos |-> 0, len |-> 0]

\* The renderer at rest, in the specifications that do not run it.
RenderIdle ==
    /\ rline = MkLine(<<>>, <<>>, <<>>)
    /\ tab_size = 4
    /\ rpc = "done"
    /\ rix = 0
    /\ position = 0
    /\ text = <<>>
    /\ lastc = NoChar

\* escape_control_and_add_styles is entered: position = 0, text empty.
RenderInit ==
    /\ rline \in {MkLine(t, <<>>, <<>>) : t \in SeqsUpTo(Chars, MaxText)}
    /\ tab_size \in 0..MaxTab
    /\ rpc = "scan"
    /\ rix = 0
    /\ position = 0
    /\ text = <<>>
    /\ lastc = NoChar

\* One turn of the loop "for c in line.text.chars()", on a control character.
EscapeControl ==
    /\ rpc = "scan" /\ rix < Len(rline.text)
    /\ LET c == rline.text[rix + 1] IN
       /\ IsControl(c)
       /\ text' = text \o <<CARET, CaretLetter(c)>>
       /\ position' = position + 2
       /\ lastc' = [c |-> c, pos |-> position, len |-> Len(text)]
    /\ rix' = rix + 1
    /\ UNCHANGED <<rline, tab_size, rpc, notRender>>

\* One turn of the loop on a tab; the remainder by a tab size of 0 panics.
EscapeTab ==
    /\ rpc = "scan" /\ rix < Len(rline.text)
    /\ LET c == rline.text[rix + 1] IN
       /\ c = TAB
       /\ lastc' = [c |-> c, pos |-> position, len |-> Len(text)]
       /\ IF tab_size = 0
          THEN /\ rpc' = "panic"
               /\ UNCHANGED <<text, position>>
          ELSE LET tab_width == TabWidthAtPosition(tab_size, position) IN
               /\ text' = text \o Spaces(tab_width)
               /\ position' = position + tab_width
               /\ UNCHANGED rpc
    /\ rix' = rix + 1
    /\ UNCHANGED <<rline, tab_size, notRender>>

\* One turn of the loop on any other character.
EscapeOther ==
    /\ rpc = "scan" /\ rix < Len(rline.text)
    /\ LET c == rline.text[rix + 1] IN
       /\ ~IsControl(c) /\ c # TAB
       /\ text' = text \o <<c>>
       /\ position' = position + 1
       /\ lastc' = [c |-> c, pos |-> position, len |-> Len(text)]
    /\ rix' = rix + 1
    /\ UNCHANGED <<rline, tab_size, rpc, notRender>>

\* The loop is over and the line has no styles: the text is returned.
EscapeReturn ==
    /\ rpc = "scan" /\ rix = Len(rline.text)
    /\ rline.styles = <<>>
    /\ rpc' = "done"
    /\ UNCHANGED <<rline, tab_size, rix, position, text, lastc, notRender>>

RenderNext == EscapeControl \/ EscapeTab \/ EscapeOther \/ EscapeReturn

(***************************************************************************)
(* SpecDiff: the update loop over one line cache.                          *)
(***************************************************************************)
\* The diff engine at rest, in the specifications that do not run it.
DiffIdle ==
    /\ cache = <<>>
    /\ dpc = "idle"
    /\ old_ix = 0
    /\ new_lines = <<>>
    /\ last = NoLast
    /\ consumed = 0
    /\ emitted = 0

DiffInit ==
    /\ cache \in SeqsUpTo(WireLines, MaxLines)
    /\ dpc = "idle"
    /\ old_ix = 0
    /\ new_lines = <<>>
    /\ last = NoLast
    /\ consumed = 0
    /\ emitted = 0

\* An update notification arrives: old_index = 0, new_lines empty.
BeginUpdate ==
    /\ dpc = "idle"
    /\ dpc' = "apply"
    /\ old_ix' = 0
    /\ new_lines' = <<>>
    /\ last' = NoLast
    /\ consumed' = 0
    /\ emitted' = 0
    /\ UNCHANGED <<cache, notDiff>>

\* index = op.apply(&self.lines, index, &mut new_lines) for the next op.
ApplyOp ==
    /\ dpc = "apply"
    /\ \E op \in WireOps :
         LET r == Apply(op, cache, old_ix, new_lines) IN
         /\ Len(r.new_lines) <= MaxLines
         /\ r.index <= MaxLines + MaxN
         /\ dpc' = IF r.panic THEN "panic" ELSE "apply"
         /\ old_ix' = r.index
         /\ new_lines' = r.new_lines
         /\ last' = [op |-> op, k |-> old_ix, len |-> Len(new_lines)]
         /\ consumed' = consumed + ConsumeCount(op)
         /\ emitted' = emitted + EmitCount(op)
    /\ UNCHANGED <<cache, notDiff>>

\* The loop is over: the cache takes the new lines.
EndUpdate ==
    /\ dpc = "apply"
    /\ cache' = new_lines
    /\ dpc' = "done"
    /\ UNCHANGED <<old_ix, new_lines, last, consumed, emitted, notDiff>>

DiffNext == BeginUpdate \/ ApplyOp \/ EndUpdate

(***************************************************************************)
(* The window of a view.  window.rs is not among the sources: the window   *)
(* is modelled from the design (4.3): height, start and end, the minimal   *)
(* shift that brings the cursor line back into [start, end), clamped to    *)
(* [0, total).                                                             *)
(***************************************************************************)
WindowNew == [start |-> 0, end |-> 0, height |-> 0]

\* Window::resize(height)
WindowResize(w, h) == [w EXCEPT !.height = h, !.end = w.start + h]

\* The start of a window of height h after the minimal shift that brings
\* line l into it.
ShiftTo(start, h, l) ==
    IF l < start THEN l
    ELSE IF l >= start + h THEN Max(l + 1 - h, 0)
    ELSE start

\* Window::set_cursor(&cursor)
WindowSetCursor(w, cur) ==
    LET s == ShiftTo(w.start, w.height, cur.line)
    IN  [w EXCEPT !.start = s, !.end = s + w.height]

\* Window::update(cursor_line, total)
WindowUpdate(w, cursor_line, total) ==
    LET shifted == ShiftTo(w.start, w.height, cursor_line)
        s == IF shifted + w.height > total THEN Max(total - w.height, 0) ELSE shifted
    IN  [w EXCEPT !.start = s, !.end = Min(s + w.height, total)]

(***************************************************************************)
(* The view (src/widgets/view/view.rs).                                    *)
(***************************************************************************)
\* Most rows of the terminal.
MaxRows == 2
\* Most invalid lines before, and after, the lines of a cache.
MaxInvalid == 2

\* ViewConfig::default()
ViewConfigDefault == [gutter_size |-> 0, tab_size |-> 4, display_gutter |-> TRUE]

\* LineCache::default()
LineCacheDefault == [before |-> 0, after |-> 0, lines |-> <<>>]

\* View::new
ViewNew ==
    [cache |-> LineCacheDefault,
     cursor |-> [line |-> 0, column |-> 0],
     window |-> WindowNew,
     cfg |-> ViewConfigDefault,
     search_in_progress |-> FALSE]

\* View::update_cache: the cache becomes the one the update describes.
UpdateCache(v, update) == [v EXCEPT !.cache = update.cache]

\* View::set_cursor
SetCursor(v, line, column) ==
    LET cur == [line |-> line, column |-> column]
    IN  [v EXCEPT !.cursor = cur, !.window = WindowSetCursor(v.window, cur)]

\* View::config_changed: tab_size as u16
ConfigChanged(v, changes) ==
    IF changes.tab_size # None
    THEN [v EXCEPT !.cfg.tab_size = Unwrap(changes.tab_size) % 65536]
    ELSE v

\* n.to_string().len()
RECURSIVE Digits(_)
Digits(n) == IF n < 10 THEN 1 ELSE 1 + Digits(n \div 10)

\* update_window returns early: the cursor is on a line before the cache.
CursorBeforeCache(v) == v.cursor.line < v.cache.before

\* The cursor line taken as an index into the cache without the invalid
\* lines before it subtracted.
CursorLineAbsolute(v) == v.cursor.line

\* let cursor_line = self.cursor.line - self.cache.before()
CursorLine(v) == v.cursor.line - v.cache.before

\* The gutter size without its minimum.
GutterSizeNoMin(v) ==
    Digits(v.cache.before + Len(v.cache.lines) + v.cache.after) + 1

\* update_window, the gutter size: the digits of before + nb_lines + after,
\* plus 1 for the space between line number and content, and at least 4.
GutterSize(v) ==
    LET gutter_size == Digits(v.cache.before + Len(v.cache.lines) + v.cache.after) + 1
    IN  Max(gutter_size, 4)

\* View::update_window
UpdateWindow(v) ==
    IF CursorBeforeCache(v) THEN v
    ELSE LET cursor_line == CursorLine(v)
             nb_lines == Len(v.cache.lines)
         IN  [v EXCEPT !.cfg.gutter_size = GutterSize(v),
                       !.window = WindowUpdate(v.window, cursor_line, nb_lines)]

\* View::resize, the view it leaves.
Resize(v, height) ==
    UpdateWindow([v EXCEPT !.window = WindowResize(v.window, height)])

\* View::resize, the scroll request it sends: (top, bottom).
ResizeScroll(v, height) ==
    LET r == Resize(v, height)
    IN  <<r.cache.before + r.window.start, r.cache.after + r.window.end>>

\* A render pass that also puts the cursor back on the first character.
RenderHomesCursor(v) == [UpdateWindow(v) EXCEPT !.cursor = [line |-> 0, column |-> 0]]

\* View::render, the view it leaves (the window is recomputed first).
Render(v) == UpdateWindow(v)

\* Window::size: the height, also when fewer lines are visible.
WindowSize(w) == w.height

\* Line::default(), the line of a blank row.
LineDefault == MkLine(<<>>, <<>>, <<>>)

\* Goto(x, y) moves to column x; a terminal takes column 0 as column 1.
ScreenColumn(x) == Max(x, 1)

\* View::render_line_str: the row written, the line number drawn and its
\* column (none without a number or with the gutter off), the column the
\* text starts at, and the characters of the line drawn there.
RenderLineStr(v, line, lineno, line_index) ==
    IF lineno # None
    THEN IF v.cfg.display_gutter
         THEN [row |-> line_index + 1,
               line_no |-> Some(Unwrap(lineno) + 1),
               line_no_offset |-> Some(v.cfg.gutter_size - Digits(Unwrap(lineno) + 1)),
               text_column |-> ScreenColumn(v.cfg.gutter_size + 1),
               chars |-> line.text]
         ELSE [row |-> line_index + 1,
               line_no |-> None,
               line_no_offset |-> None,
               text_column |-> ScreenColumn(0),
               chars |-> line.text]
    ELSE [row |-> line_index + 1,
          line_no |-> None,
          line_no_offset |-> None,
          text_column |-> ScreenColumn(v.cfg.gutter_size + 1),
          chars |-> line.text]

\* render_lines: the lines within the displayed window,
\* lines().iter().skip(start).take(size), each drawn on the row of its index.
VisibleRows(v) ==
    LET start == v.window.start
        n == Min(WindowSize(v.window), Max(Len(v.cache.lines) - start, 0))
    IN  [line_index \in 1..n |->
            RenderLineStr(v, v.cache.lines[start + line_index],
                          Some(v.cache.before + start + line_index - 1),
                          line_index - 1)]

\* render_lines: the empty rows, for num in line_count..win_size.
BlankRows(v) ==
    LET line_count == Len(v.cache.lines)
        win_size == WindowSize(v.window)
    IN  IF win_size > line_count
        THEN [j \in 1..(win_size - line_count) |->
                 RenderLineStr(v, LineDefault, None, line_count + j - 1)]
        ELSE <<>>

\* View::render_lines: the rows written, in the order they are written.
RenderLines(v) == VisibleRows(v) \o BlankRows(v)

\* The caches an update notification leaves: before invalid lines, some
\* lines, and after invalid lines: none, or so many that the document has
\* about ten thousand lines; and the last line of such a document alone.
Caches ==
    {[before |-> b, after |-> a, lines |-> [i \in 1..n |-> LineA]] :
        b \in 0..MaxInvalid, a \in {0, 9996}, n \in 0..(MaxLines + 1)}
    \cup {[before |-> 9999, after |-> 0, lines |-> <<LineA>>]}

\* The lines a scroll-to notification names.
CursorLines == 0..(MaxInvalid + MaxLines + 1)

\* The changes of a config-changed notification: no tab size, or one as the
\* engine's u64.
ConfigChanges ==
    {[tab_size |-> t] : t \in {None, Some(0), Some(2), Some(65536), Some(65538)}}

VOp(op, recomputed, scroll) == [op |-> op, recomputed |-> recomputed, scroll |-> scroll]

\* The view at rest, in the specifications that do not drive it.
ViewIdle ==
    /\ view = ViewNew
    /\ vop = VOp("new", FALSE, None)

\* The view as the editor inserts it: View::new(), then resize to the rows
\* of the terminal (0 until the first handle_resize).
ViewInit ==
    \E h \in 0..MaxRows :
        /\ view = Resize(ViewNew, h)
        /\ vop = VOp("resize", ~CursorBeforeCache(ViewNew), Some(ResizeScroll(ViewNew, h)))

VUpdateCache ==
    /\ \E c \in Caches : view' = UpdateCache(view, [cache |-> c])
    /\ vop' = VOp("update_cache", FALSE, None)
    /\ UNCHANGED notView

VSetCursor ==
    /\ \E l \in CursorLines : view' = SetCursor(view, l, 0)
    /\ vop' = VOp("set_cursor", FALSE, None)
    /\ UNCHANGED notView

VConfigChanged ==
    /\ \E ch \in ConfigChanges : view' = ConfigChanged(view, ch)
    /\ vop' = VOp("config_changed", FALSE, None)
    /\ UNCHANGED notView

VResize ==
    /\ \E h \in 0..MaxRows :
         /\ view' = Resize(view, h)
         /\ vop' = VOp("resize", ~CursorBeforeCache(view), Some(ResizeScroll(view, h)))
    /\ UNCHANGED notView

VRender ==
    /\ view' = Render(view)
    /\ vop' = VOp("render", ~CursorBeforeCache(view), None)
    /\ UNCHANGED notView

ViewNext == VUpdateCache \/ VSetCursor \/ VConfigChanged \/ VResize \/ VRender

(***************************************************************************)
(* The editor (src/widgets/editor.rs).                                     *)
(***************************************************************************)
\* Most views the engine creates.
MaxViews == 2
\* Most view notifications the engine sends.
MaxEvents == 1

Range(q) == {q[i] : i \in 1..Len(q)}

\* IndexMap::insert, the order: a new key goes last, a known key stays.
IndexMapInsert(order, id) == IF id \in Range(order) THEN order ELSE Append(order, id)

\* IndexMap::insert, the map.
MapInsert(vs, id, v) == [i \in (DOMAIN vs) \cup {id} |-> IF i = id THEN v ELSE vs[i]]

\* IndexMap::get_full, the index (from 0) of a key that is in the map.
IndexOf(order, id) == (CHOOSE i \in 1..Len(order) : order[i] = id) - 1

\* IndexMap::get_index(dex), the key.
KeyAt(order, dex) == order[dex + 1]

\* IndexMap::remove (swap_remove), the order: the last key takes the place of
\* the removed one.
SwapRemove(order, id) ==
    LET dex == IndexOf(order, id)
        n == Len(order)
    IN  [j \in 1..(n - 1) |-> IF j = dex + 1 THEN order[n] ELSE order[j]]

\* IndexMap::remove, the map.
MapRemove(vs, id) == [i \in (DOMAIN vs) \ {id} |-> vs[i]]

\* The editor as a value: the fields of Editor, and the record of the
\* notifications.
EdState ==
    [views |-> views, view_order |-> view_order, current_view |-> current_view,
     size |-> size, delayed_events |-> delayed_events, clipboard |-> clipboard,
     styles |-> styles, hist |-> hist]

\* The editor after a handler that leaves it as ed.
Becomes(ed) ==
    /\ views' = ed.views
    /\ view_order' = ed.view_order
    /\ current_view' = ed.current_view
    /\ size' = ed.size
    /\ delayed_events' = ed.delayed_events
    /\ clipboard' = ed.clipboard
    /\ styles' = ed.styles
    /\ hist' = ed.hist

\* The notifications of the engine that name a view: one update, one
\* scroll-to and one config-changed.
Notification(kind, id, nid) ==
    [kind |-> kind, view_id |-> id, nid |-> nid,
     update |-> [cache |-> [before |-> 0, after |-> 0,
                            lines |-> [i \in 1..MaxLines |-> LineA]]],
     line |-> 1, column |-> 0,
     changes |-> [tab_size |-> Some(2)]]

ViewKinds == {"update", "scroll_to", "config_changed"}

\* The terminal size a resize reports.
TermSizes == {<<80, MaxRows>>}

\* delayed_events.push(event), the event lost.
PushDelayedLossy(q, e) == q

\* self.delayed_events.push(event)
PushDelayed(q, e) == Append(q, e)

\* The event is stored for later: the view is not in the map.
Delayed(ed, e) ==
    [ed EXCEPT !.delayed_events = PushDelayed(@, e),
               !.hist[e.nid].queued = TRUE]

\* Editor::update
EditorUpdate(ed, e) ==
    IF e.view_id \in DOMAIN ed.views
    THEN [ed EXCEPT !.views[e.view_id] = UpdateCache(@, e.update),
                    !.hist[e.nid].applied = @ + 1]
    ELSE Delayed(ed, e)

\* Editor::scroll_to
EditorScrollTo(ed, e) ==
    IF e.view_id \in DOMAIN ed.views
    THEN [ed EXCEPT !.views[e.view_id] = SetCursor(@, e.line, e.column),
                    !.hist[e.nid].applied = @ + 1]
    ELSE Delayed(ed, e)

\* Editor::def_style
EditorDefStyle(ed, e) == [ed EXCEPT !.styles = @ \cup {e.style_id}]

\* Editor::config_changed
EditorConfigChanged(ed, e) ==
    IF e.view_id \in DOMAIN ed.views
    THEN [ed EXCEPT !.views[e.view_id] = ConfigChanged(@, e.changes),
                    !.hist[e.nid].applied = @ + 1]
    ELSE Delayed(ed, e)

\* Editor::handle_core_event
HandleCoreEvent(ed, e) ==
    CASE e.kind = "update" -> EditorUpdate(ed, e)
      [] e.kind = "def_style" -> EditorDefStyle(ed, e)
      [] e.kind = "scroll_to" -> EditorScrollTo(ed, e)
      [] e.kind = "config_changed" -> EditorConfigChanged(ed, e)

\* poll: for event in delayed_events { self.handle_core_event(event) }
RECURSIVE HandleDelayed(_, _)
HandleDelayed(ed, events) ==
    IF events = <<>> THEN ed
    ELSE HandleDelayed(HandleCoreEvent(ed, Head(events)), Tail(events))

\* poll, the NewView arm: the view is created, resized to the rows of the
\* terminal, inserted, and becomes the current view.
NewViewReply(ed, view_id) ==
    [ed EXCEPT !.views = MapInsert(@, view_id, Resize(ViewNew, ed.size[2])),
               !.view_order = IndexMapInsert(@, view_id),
               !.current_view = view_id]

\* poll, the CopiedText arm.
CopiedTextReply(ed, t) == [ed EXCEPT !.clipboard = t]

\* poll: the loop over the replies received.
RECURSIVE ProcessReplies(_, _)
ProcessReplies(ed, replies) ==
    IF replies = <<>> THEN ed
    ELSE LET r == Head(replies)
             next == IF r.type = "new_view"
                     THEN NewViewReply(ed, r.view_id)
                     ELSE CopiedTextReply(ed, r.text)
         IN  ProcessReplies(next, Tail(replies))

\* Editor::poll: the delayed events are drained and handled first, then the
\* replies.
PollEditor(ed, replies) ==
    ProcessReplies(
        HandleDelayed([ed EXCEPT !.delayed_events = <<>>], ed.delayed_events),
        replies)

\* next_buffer that stays on the last view instead of going back to the
\* first.
NextBufferNoWrap(ed) ==
    IF ed.current_view \in DOMAIN ed.views
    THEN LET dex == IndexOf(ed.view_order, ed.current_view)
         IN  IF dex + 1 = Len(ed.view_order)
             THEN ed
             ELSE [ed EXCEPT !.current_view = KeyAt(ed.view_order, dex + 1)]
    ELSE ed

\* Editor::next_buffer
NextBufferOf(ed) ==
    IF ed.current_view \in DOMAIN ed.views
    THEN LET dex == IndexOf(ed.view_order, ed.current_view)
         IN  IF dex + 1 = Len(ed.view_order)
             THEN [ed EXCEPT !.current_view = KeyAt(ed.view_order, 0)]
             ELSE [ed EXCEPT !.current_view = KeyAt(ed.view_order, dex + 1)]
    ELSE ed

\* Editor::prev_buffer
PrevBufferOf(ed) ==
    IF ed.current_view \in DOMAIN ed.views
    THEN LET dex == IndexOf(ed.view_order, ed.current_view)
         IN  IF dex = 0
             THEN [ed EXCEPT !.current_view = KeyAt(ed.view_order, Len(ed.view_order) - 1)]
             ELSE [ed EXCEPT !.current_view = KeyAt(ed.view_order, dex - 1)]
    ELSE ed

\* close_view without the test that keeps the last view.
CloseViewOfLast(ed, view_id) ==
    LET view_to_close == IF view_id = None THEN ed.current_view ELSE Unwrap(view_id)
    IN  IF view_to_close \in DOMAIN ed.views
        THEN LET p == PrevBufferOf(ed)
             IN  [p EXCEPT !.views = MapRemove(@, view_to_close),
                           !.view_order = SwapRemove(@, view_to_close)]
        ELSE ed

\* Editor::close_view
CloseViewOf(ed, view_id) ==
    IF Len(ed.view_order) <= 1 THEN ed
    ELSE LET view_to_close == IF view_id = None THEN ed.current_view ELSE Unwrap(view_id)
         IN  IF view_to_close \in DOMAIN ed.views
             THEN LET p == PrevBufferOf(ed)
                  IN  [p EXCEPT !.views = MapRemove(@, view_to_close),
                                !.view_order = SwapRemove(@, view_to_close)]
             ELSE ed

\* Editor::handle_resize
HandleResizeOf(ed, sz) ==
    LET e1 == [ed EXCEPT !.size = sz]
    IN  IF ed.current_view \in DOMAIN ed.views
        THEN [e1 EXCEPT !.views[ed.current_view] = Resize(@, sz[2])]
        ELSE e1

\* Editor::render
RenderOf(ed) ==
    IF ed.current_view \in DOMAIN ed.views
    THEN [ed EXCEPT !.views[ed.current_view] = Render(@)]
    ELSE ed

\* The ids whose NewView reply the editor has received.
Created == {i \in 1..requested : \A k \in 1..Len(xi_reply_rx) : xi_reply_rx[k].view_id # i}

\* Editor::new
EditorNew ==
    /\ views = <<>>
    /\ view_order = <<>>
    /\ current_view = 0
    /\ size = <<0, 0>>
    /\ delayed_events = <<>>
    /\ xi_reply_rx = <<>>
    /\ clipboard = None
    /\ styles = {0}
    /\ requested = 0
    /\ sent = 0
    /\ hist = <<>>

\* Editor::new_view: the engine creates a view and the reply with its id is
\* sent into the channel.
NewView ==
    /\ requested < MaxViews
    /\ requested' = requested + 1
    /\ xi_reply_rx' = Append(xi_reply_rx, [type |-> "new_view", view_id |-> requested + 1])
    /\ UNCHANGED <<views, view_order, current_view, size, delayed_events,
                   clipboard, styles, sent, hist, notEditor>>

\* handle_core_event with an update, scroll-to or config-changed of a view
\* the engine has created.
CoreNotify ==
    /\ sent < MaxEvents
    /\ \E kind \in ViewKinds, id \in 1..requested :
         LET e == Notification(kind, id, sent + 1)
             arrived == [EdState EXCEPT !.hist =
                            Append(@, [view_id |-> id, kind |-> kind, queued |-> FALSE,
                                       replayed |-> FALSE, applied |-> 0])]
         IN  Becomes(HandleCoreEvent(arrived, e))
    /\ sent' = sent + 1
    /\ UNCHANGED <<xi_reply_rx, requested, notEditor>>

\* handle_core_event with a def_style.
CoreDefStyle ==
    /\ Becomes(HandleCoreEvent(EdState, [kind |-> "def_style", style_id |-> 1]))
    /\ UNCHANGED <<xi_reply_rx, requested, sent, notEditor>>

\* The record of the notifications after a poll: the queued ones whose view
\* had been created when the poll started have been handled again.
Replayed(h) ==
    [nid \in DOMAIN h |->
        IF h[nid].view_id \in Created /\ (\E k \in 1..Len(delayed_events) : delayed_events[k].nid = nid)
        THEN [h[nid] EXCEPT !.replayed = TRUE]
        ELSE h[nid]]

\* Editor::poll
Poll ==
    /\ Becomes([PollEditor(EdState, xi_reply_rx) EXCEPT !.hist = Replayed(@)])
    /\ xi_reply_rx' = <<>>
    /\ UNCHANGED <<requested, sent, notEditor>>

\* Editor::handle_resize
HandleResize ==
    /\ \E sz \in TermSizes : Becomes(HandleResizeOf(EdState, sz))
    /\ UNCHANGED <<xi_reply_rx, requested, sent, notEditor>>

\* Editor::next_buffer
NextBuffer ==
    /\ Becomes(NextBufferOf(EdState))
    /\ UNCHANGED <<xi_reply_rx, requested, sent, notEditor>>

\* Editor::prev_buffer
PrevBuffer ==
    /\ Becomes(PrevBufferOf(EdState))
    /\ UNCHANGED <<xi_reply_rx, requested, sent, notEditor>>

\* Editor::close_view, of the current view or of the view named.
CloseView ==
    /\ \E view_id \in {None} \cup {Some(i) : i \in 1..MaxViews} :
         Becomes(CloseViewOf(EdState, view_id))
    /\ UNCHANGED <<xi_reply_rx, requested, sent, notEditor>>

\* Editor::render
EditorRender ==
    /\ Becomes(RenderOf(EdState))
    /\ UNCHANGED <<xi_reply_rx, requested, sent, notEditor>>

EditorNext ==
    \/ NewView
    \/ CoreNotify
    \/ CoreDefStyle
    \/ Poll
    \/ HandleResize
    \/ NextBuffer
    \/ PrevBuffer
    \/ CloseView
    \/ EditorRender

(***************************************************************************)
(* The style injection of the renderer (View::get_style_sequences and the  *)
(* second half of View::escape_control_and_add_styles).  A String is its   *)
(* UTF-8 bytes: len, insert_str and the offsets of the style runs count    *)
(* bytes.  style.rs is not among the sources: a start or reset sequence is *)
(* modelled as SeqLen bytes that name the run and the kind.                *)
(***************************************************************************)
\* Longest text of a styled line, in characters.
MaxStyleText == 2

\* usize is 64 bits wide; the model keeps 16 of them.  Every length of the
\* model is far below 2^16, so a value wraps in the model exactly when it
\* wraps in the program.
UsizeModulus == 65536

\* The length in bytes of a start or reset sequence.
SeqLen == 2

\* The characters of a styled line: a tab, a control character, a one-byte
\* and a two-byte character.
StyleChars == {TAB, 2, 65, 233}

\* The UTF-8 encoding of a character below U+0800.
Utf8(c) == IF c < 128 THEN <<c>> ELSE <<192 + (c \div 64), 128 + (c % 64)>>

RECURSIVE Utf8Bytes(_)
Utf8Bytes(chars) ==
    IF chars = <<>> THEN <<>> ELSE Utf8(Head(chars)) \o Utf8Bytes(Tail(chars))

\* The characters one turn of the escaping loop pushes for c at column pos.
EscapedChar(ts, pos, c) ==
    CASE IsControl(c) -> <<CARET, CaretLetter(c)>>
      [] c = TAB -> Spaces(TabWidthAtPosition(ts, pos))
      [] OTHER -> <<c>>

\* The escaping loop over the first n characters: the text it builds.
RECURSIVE EscapedText(_, _, _)
EscapedText(ts, chars, n) ==
    IF n = 0 THEN <<>>
    ELSE EscapedText(ts, chars, n - 1)
            \o EscapedChar(ts, FoldWidth(ts, chars, n - 1), chars[n])

\* The byte of a start (kind 0) or reset (kind 1) sequence of run number
\* run: a negative number, no byte of a text is one.
SeqByte(run, kind) == 0 - ((2 * run) + kind)
IsSeqByte(b) == b < 0
RunOf(b) == (0 - b) \div 2
KindOf(b) == (0 - b) % 2

\* set_style(style) and reset_style(style), for the style of run number run.
SetStyle(run) == [i \in 1..SeqLen |-> SeqByte(run, 0)]
ResetStyle(run) == [i \in 1..SeqLen |-> SeqByte(run, 1)]

\* The start index of a run after prev_style_end; a negative offset larger
\* than prev_style_end wraps around.
StartIdx(prev_style_end, offset) ==
    IF offset >= 0
    THEN (prev_style_end + offset) % UsizeModulus
    ELSE (prev_style_end - (0 - offset)) % UsizeModulus

\* prev_style_end - ((-offset) as usize) is below 0.
Underflows(prev_style_end, offset) == offset < 0 /\ (0 - offset) > prev_style_end

\* The loop with a run of an unknown style left out of the running end.
RECURSIVE StyleLoopSkipping(_, _, _, _)
StyleLoopSkipping(table, runs, i, prev_style_end) ==
    IF i > Len(runs) THEN [seqs |-> <<>>, underflow |-> FALSE]
    ELSE LET style_def == runs[i]
             start_idx == StartIdx(prev_style_end, style_def.offset)
             end_idx == (start_idx + style_def.length) % UsizeModulus
             known == style_def.style_id \in table
             rest == StyleLoopSkipping(table, runs, i + 1,
                                       IF known THEN end_idx ELSE prev_style_end)
             pushed == IF known
                       THEN <<[idx |-> start_idx, seq |-> SetStyle(i)],
                              [idx |-> end_idx, seq |-> ResetStyle(i)]>>
                       ELSE <<>>
         IN  [seqs |-> pushed \o rest.seqs,
              underflow |-> Underflows(prev_style_end, style_def.offset) \/ rest.underflow]

\* The loop of get_style_sequences over the runs from number i on: the
\* sequences pushed, and whether a subtraction went below 0.
RECURSIVE StyleLoop(_, _, _, _)
StyleLoop(table, runs, i, prev_style_end) ==
    IF i > Len(runs) THEN [seqs |-> <<>>, underflow |-> FALSE]
    ELSE LET style_def == runs[i]
             start_idx == StartIdx(prev_style_end, style_def.offset)
             end_idx == (start_idx + style_def.length) % UsizeModulus
             rest == StyleLoop(table, runs, i + 1, end_idx)
             pushed == IF style_def.style_id \in table
                       THEN <<[idx |-> start_idx, seq |-> SetStyle(i)],
                              [idx |-> end_idx, seq |-> ResetStyle(i)]>>
                       ELSE <<>>
         IN  [seqs |-> pushed \o rest.seqs,
              underflow |-> Underflows(prev_style_end, style_def.offset) \/ rest.underflow]

\* sort_by(|a, b| a.0.cmp(&b.0)): a stable sort, equal indices keep their
\* order.
RECURSIVE SortByIdx(_)
SortByIdx(q) ==
    IF q = <<>> THEN <<>>
    ELSE LET sorted == SortByIdx(SubSeq(q, 1, Len(q) - 1))
             x == q[Len(q)]
             k == Cardinality({j \in 1..Len(sorted) : sorted[j].idx <= x.idx})
         IN  SubSeq(sorted, 1, k) \o <<x>> \o SubSeq(sorted, k + 1, Len(sorted))

\* Vec::reverse
Reverse(q) == [j \in 1..Len(q) |-> q[Len(q) + 1 - j]]

\* View::get_style_sequences
GetStyleSequences(table, line) ==
    LET r == StyleLoop(table, line.styles, 1, 0)
    IN  [seqs |-> Reverse(SortByIdx(r.seqs)), underflow |-> r.underflow]

\* str::is_char_boundary
IsCharBoundary(t, idx) ==
    \/ idx = 0
    \/ idx = Len(t)
    \/ idx < Len(t) /\ ~(128 <= t[idx + 1] /\ t[idx + 1] <= 191)

\* String::insert_str (idx is a char boundary), String::push_str at the end.
InsertStr(t, idx, str) == SubSeq(t, 1, idx) \o str \o SubSeq(t, idx + 1, Len(t))

\* The style runs of the model's lines: offsets before, at and after the
\* end of the previous run, empty and non-empty runs, a style of the table
\* and one that may be missing from it.
StyleRuns == {StyleRun(o, l, id) : o \in {-1, 0, 1}, l \in {0, 2}, id \in {0, 1}}

\* A line has no, one or two runs.
RunLists == {<<>>} \cup {<<r>> : r \in StyleRuns} \cup {<<r1, r2>> : r1 \in StyleRuns, r2 \in StyleRuns}

\* The style tables: the default style, and a second style.
StyleTables == {{0}, {0, 1}}

\* The injection at rest, in the specifications that do not run it.
StyleIdle ==
    /\ sline = MkLine(<<>>, <<>>, <<>>)
    /\ stab = 4
    /\ sstyles = {0}
    /\ spc = "done"
    /\ sescaped = <<>>
    /\ sall = <<>>
    /\ sseqs = <<>>
    /\ stext = <<>>

\* escape_control_and_add_styles is entered.
StyleInit ==
    /\ sline \in {MkLine(t, <<>>, rs) : t \in SeqsUpTo(StyleChars, MaxStyleText), rs \in RunLists}
    /\ stab \in {0, MaxTab}
    /\ sstyles \in StyleTables
    /\ spc = "escape"
    /\ sescaped = <<>>
    /\ sall = <<>>
    /\ sseqs = <<>>
    /\ stext = <<>>

\* The escaping loop, whole; the remainder by a tab size of 0 panics.  A line
\* without styles is returned as it is.
StyleEscape ==
    /\ spc = "escape"
    /\ IF stab = 0 /\ TAB \in Range(sline.text)
       THEN /\ spc' = "panic_tab"
            /\ UNCHANGED <<sescaped, stext>>
       ELSE /\ sescaped' = Utf8Bytes(EscapedText(stab, sline.text, Len(sline.text)))
            /\ stext' = sescaped'
            /\ spc' = IF sline.styles = <<>> THEN "done" ELSE "sequences"
    /\ UNCHANGED <<sline, stab, sstyles, sall, sseqs, notStyle>>

\* get_style_sequences; a subtraction below 0 panics when the build checks
\* overflows, and wraps around when it does not.
StyleSequences ==
    /\ spc = "sequences"
    /\ LET r == GetStyleSequences(sstyles, sline)
       IN  \/ /\ r.underflow
              /\ spc' = "panic_underflow"
              /\ UNCHANGED <<sall, sseqs>>
           \/ /\ sall' = r.seqs
              /\ sseqs' = r.seqs
              /\ spc' = "insert"
    /\ UNCHANGED <<sline, stab, sstyles, sescaped, stext, notStyle>>

\* One turn of the loop over style_sequences.drain(..): the sequence is
\* pushed at the end, or inserted; insert_str panics off a char boundary.
StyleInsert ==
    /\ spc = "insert" /\ sseqs # <<>>
    /\ LET style == Head(sseqs)
       IN  IF style.idx >= Len(stext)
           THEN /\ stext' = stext \o style.seq
                /\ sseqs' = Tail(sseqs)
                /\ UNCHANGED spc
           ELSE IF IsCharBoundary(stext, style.idx)
                THEN /\ stext' = InsertStr(stext, style.idx, style.seq)
                     /\ sseqs' = Tail(sseqs)
                     /\ UNCHANGED spc
                ELSE /\ spc' = "panic_boundary"
                     /\ UNCHANGED <<stext, sseqs>>
    /\ UNCHANGED <<sline, stab, sstyles, sescaped, sall, notStyle>>

\* The loop is over: the styled text is returned.
StyleReturn ==
    /\ spc = "insert" /\ sseqs = <<>>
    /\ spc' = "done"
    /\ UNCHANGED <<sline, stab, sstyles, sescaped, sall, sseqs, stext, notStyle>>

StyleNext == StyleEscape \/ StyleSequences \/ StyleInsert \/ StyleReturn

(***************************************************************************)
(* The cursor and the clicks of a view (View::render_cursor,               *)
(* View::get_click_location, View::toggle_line_numbers).  A text is the    *)
(* sequence of its characters, all of one byte.                            *)
(***************************************************************************)
\* View::toggle_line_numbers
ToggleLineNumbers(v) == [v EXCEPT !.cfg.display_gutter = ~v.cfg.display_gutter]

\* A position written with Goto(x, y).
Goto(x, y) == [x |-> x, y |-> y]

\* View::render_cursor: the Goto written, or nothing.
RenderCursor(v) ==
    IF v.cache.lines = <<>> THEN Some(Goto(1, 1))
    ELSE IF v.cursor.line < v.cache.before THEN None
    ELSE LET line_idx == v.cursor.line - v.cache.before
         IN  IF line_idx >= Len(v.cache.lines) THEN None
             ELSE IF line_idx < v.window.start THEN None
             ELSE LET line == v.cache.lines[line_idx + 1]
                      line_pos == line_idx - v.window.start
                      column == FoldWidth(v.cfg.tab_size, line.text, v.cursor.column)
                  IN  Some(Goto(v.cfg.gutter_size + column + 1, line_pos + 1))

\* get_click_location, the line number, for the unscrolled window only.
ClickLineNoAtTop(v, x) == x + v.cache.before

\* get_click_location: let lineno = x + before + window.start()
ClickLineNo(v, x) == x + v.cache.before + v.window.start

\* A click location: whether the computation panicked, the line and column
\* returned, and the index in the cache of the line whose characters were
\* walked (none when no line was walked).
Location(panic, line, column, walked) ==
    [panic |-> panic, line |-> line, column |-> column, walked |-> walked]

\* get_click_location, the loop over the characters from index idx on
\* (idx from 0) with text_len columns accumulated: the locations it can
\* return.  idx - gutter_size on usize panics below 0 when the build checks
\* overflows, and wraps around when it does not.
RECURSIVE WalkLine(_, _, _, _, _, _)
WalkLine(v, x, y, chars, idx, text_len) ==
    IF idx >= Len(chars)
    THEN {Location(FALSE, ClickLineNo(v, x), Len(chars) + 1, Some(x))}
    ELSE LET char_width == TranslateCharWidth(v.cfg.tab_size, text_len, chars[idx + 1])
             len == text_len + char_width
             diff == (idx - v.cfg.gutter_size) % UsizeModulus
             column == IF char_width > 1 THEN diff ELSE (diff + 1) % UsizeModulus
         IN  IF len >= y
             THEN IF idx < v.cfg.gutter_size
                  THEN {Location(TRUE, 0, 0, Some(x)),
                        Location(FALSE, ClickLineNo(v, x), column, Some(x))}
                  ELSE {Location(FALSE, ClickLineNo(v, x), column, Some(x))}
             ELSE WalkLine(v, x, y, chars, idx + 1, len)

\* View::get_click_location(x, y): x is the row and y the column, from 0.
GetClickLocation(v, x, y) ==
    IF x < Len(v.cache.lines)
    THEN IF y < v.cfg.gutter_size
         THEN {Location(FALSE, ClickLineNo(v, x), 0, None)}
         ELSE WalkLine(v, x, y, v.cache.lines[x + 1].text, 0, 0)
    ELSE {Location(FALSE, x, y, None)}

\* The texts of the lines on the screen: empty, shorter and longer than the
\* gutter is wide, with a tab and with a control character.
ScreenTexts == {<<>>, <<65, 66>>, <<TAB, 65>>, <<2, 65>>, <<65, 66, 67, 68, 69, 70>>}

\* The caches on the screen: one or two lines, after none or one invalid
\* line.
ScreenCaches ==
    {[before |-> b, after |-> 0, lines |-> ls] :
        b \in {0, 1},
        ls \in {<<MkLine(t, <<>>, <<>>)>> : t \in ScreenTexts}
               \cup {<<MkLine(<<65, 66>>, <<>>, <<>>), MkLine(t, <<>>, <<>>)>> : t \in ScreenTexts}}

\* The columns of a click, from 0: in the gutter, at its edge, beyond it.
ClickColumns == {0, 3, 4, 5, 6, 11}

\* Nothing written or sent yet.
NoOutput == [op |-> "none"]

\* The screen at rest, in the specifications that do not drive it.
ScreenIdle ==
    /\ scr = ViewNew
    /\ sout = NoOutput

\* A view that was created and resized, then received a tab size, an update
\* and a scroll-to, and was rendered.
ScreenInit ==
    /\ \E h \in 1..MaxRows, ts \in {2, MaxTab}, c \in ScreenCaches,
          l \in 0..2, col \in 0..2 :
         scr = Render(SetCursor(
                   UpdateCache(
                       ConfigChanged(Resize(ViewNew, h), [tab_size |-> Some(ts)]),
                       [cache |-> c]),
                   l, col))
    /\ sout = NoOutput

\* Command::ToggleLineNumbers
SToggleLineNumbers ==
    /\ scr' = ToggleLineNumbers(scr)
    /\ sout' = [op |-> "toggle_line_numbers"]
    /\ UNCHANGED notScreen

\* View::render: the rows and the cursor written.
SRender ==
    /\ scr' = Render(scr)
    /\ sout' = [op |-> "render", rows |-> RenderLines(scr'), cursor |-> RenderCursor(scr')]
    /\ UNCHANGED notScreen

\* handle_mouse_event with a press of the left button at row x + 1 and
\* column y + 1: View::click.
SClick ==
    /\ \E x \in 0..MaxRows, y \in ClickColumns :
         \E loc \in GetClickLocation(scr, x, y) :
             sout' = [op |-> "click", x |-> x, y |-> y, location |-> loc]
    /\ UNCHANGED <<scr, notScreen>>

\* The writes of a render pass, in order: write_all of the lines, then the
\* write of the cursor position.
RenderWrites == {"lines", "cursor"}

\* View::render on a writer whose write named by fail returns an error:
\* the view left, the Result returned, the write that failed (none when
\* the failing write is never attempted), and the rows and the cursor
\* written.  render_lines returns the error of write_all with `?`;
\* render_cursor logs the error of its write and returns nothing.
RenderTo(v, fail) ==
    LET u == UpdateWindow(v)
    IN  IF fail = "lines"
        THEN [view |-> u, result |-> "Err", failed |-> Some("lines"),
              rows |-> <<>>, cursor |-> None]
        ELSE IF fail = "cursor" /\ RenderCursor(u) # None
        THEN [view |-> u, result |-> "Ok", failed |-> Some("cursor"),
              rows |-> RenderLines(u), cursor |-> None]
        ELSE [view |-> u, result |-> "Ok", failed |-> None,
              rows |-> RenderLines(u), cursor |-> RenderCursor(u)]

\* View::render on an output stream that fails.
SRenderFailing ==
    /\ \E fail \in RenderWrites :
         LET r == RenderTo(scr, fail)
         IN  /\ scr' = r.view
             /\ sout' = [op |-> "render_failing", result |-> r.result,
                         failed |-> r.failed, rows |-> r.rows, cursor |-> r.cursor,
                         cache |-> scr.cache, cursor_before |-> scr.cursor]
    /\ UNCHANGED notScreen

ScreenNext == SToggleLineNumbers \/ SRender \/ SClick \/ SRenderFailing

(***************************************************************************)
(* The input of the editor (Editor::handle_input, Editor::handle_command,  *)
(* View::handle_command, View::handle_mouse_event).  The Command           *)
(* enumeration (core) is not among the sources: a command is its name and  *)
(* its arguments.                                                          *)
(***************************************************************************)
\* A terminal event (termion::event::Event): a key with its character (0
\* for the keys without one), or a mouse event with its column and row,
\* both from 1.
Key(kind, c) ==
    [type |-> "key", kind |-> kind, c |-> c, column |-> 0, row |-> 0, bytes |-> <<>>]
Mouse(kind, column, row) ==
    [type |-> "mouse", kind |-> kind, c |-> 0, column |-> column, row |-> row, bytes |-> <<>>]

\* Event::Unsupported(bytes)
Unsupported(bytes) ==
    [type |-> "unsupported", kind |-> "Unsupported", c |-> 0, column |-> 0, row |-> 0,
     bytes |-> bytes]

\* A command.
Cmd(name, args) == [name |-> name, args |-> args]

\* Command::Insert(c)
Insert(c) == Cmd("Insert", <<c>>)

\* The key events that have an entry in the keymap: enter (a plain
\* character key), ctrl+n, ctrl+w, escape and F1.
BoundKeys == {Key("Char", 10), Key("Ctrl", 110), Key("Ctrl", 119), Key("Esc", 0), Key("F", 1)}

\* self.keymap: the command each of these keys is bound to.
KeyMap ==
    [ev \in BoundKeys |->
        CASE ev = Key("Char", 10) -> Cmd("InsertNewline", <<>>)
          [] ev = Key("Ctrl", 110) -> Cmd("NextBuffer", <<>>)
          [] ev = Key("Ctrl", 119) -> Cmd("CloseCurrentView", <<>>)
          [] ev = Key("Esc", 0) -> Cmd("Cancel", <<>>)
          [] ev = Key("F", 1) -> Cmd("ToggleLineNumbers", <<>>)]

\* What became of an event: the editor left, whether the handler panicked,
\* the command given to Editor::handle_command, and the command given to a
\* view (or sent by it to the engine) with the id of the view.
Handled(ed, panic, dispatched, view_command) ==
    [ed |-> ed, panic |-> panic, dispatched |-> dispatched, view_command |-> view_command]

\* View::handle_command, the view it leaves: ToggleLineNumbers, FindUnderExpand
\* and Cancel touch the view, every other command goes to the client.
ViewHandleCommand(v, cmd) ==
    CASE cmd.name = "ToggleLineNumbers" -> ToggleLineNumbers(v)
      [] cmd.name = "FindUnderExpand" -> [v EXCEPT !.search_in_progress = TRUE]
      [] cmd.name = "Cancel" -> [v EXCEPT !.search_in_progress = FALSE]
      [] OTHER -> v

\* if let Some(view) = self.views.get_mut(&self.current_view)
\*     { view.handle_command(cmd) }
ToCurrentView(ed, cmd, dispatched) ==
    IF ed.current_view \in DOMAIN ed.views
    THEN Handled([ed EXCEPT !.views[ed.current_view] = ViewHandleCommand(@, cmd)],
                 FALSE, dispatched, Some(<<ed.current_view, cmd>>))
    ELSE Handled(ed, FALSE, dispatched, None)

\* Editor::handle_command, for the commands of the keymap.
HandleCommand(ed, cmd) ==
    CASE cmd.name = "NextBuffer" -> Handled(NextBufferOf(ed), FALSE, Some(cmd), None)
      [] cmd.name = "PrevBuffer" -> Handled(PrevBufferOf(ed), FALSE, Some(cmd), None)
      [] cmd.name = "CloseCurrentView" ->
            Handled(CloseViewOf(ed, None), FALSE, Some(cmd),
                    IF Len(ed.view_order) > 1 /\ ed.current_view \in DOMAIN ed.views
                    THEN Some(<<ed.current_view, cmd>>) ELSE None)
      [] OTHER -> ToCurrentView(ed, cmd, Some(cmd))

\* handle_input, the arm of the keys, with the plain characters inserted
\* before the keymap is looked up.
HandleKeyInsertFirst(ed, ev) ==
    IF ev.kind = "Char" /\ ed.current_view \in DOMAIN ed.views
    THEN ToCurrentView(ed, Insert(ev.c), None)
    ELSE IF ev \in DOMAIN KeyMap THEN HandleCommand(ed, KeyMap[ev])
    ELSE Handled(ed, FALSE, None, None)

\* handle_input, the arm of the keys: the command of the keymap when there
\* is one; otherwise Insert(c) to the current view for Key::Char(c), and
\* nothing for another key or without a current view.
HandleKey(ed, ev) ==
    IF ev \in DOMAIN KeyMap THEN HandleCommand(ed, KeyMap[ev])
    ELSE IF ed.current_view \in DOMAIN ed.views /\ ev.kind = "Char"
    THEN ToCurrentView(ed, Insert(ev.c), None)
    ELSE Handled(ed, FALSE, None, None)

\* View::handle_mouse_event for the view id: a press of the left button at
\* (column, row) is a click at row - 1, column - 1, sent to the engine with
\* the location get_click_location returns; a release does nothing.
HandleMouseEvent(ed, id, ev) ==
    IF ev.kind = "press_left"
    THEN {IF loc.panic THEN Handled(ed, TRUE, None, None)
          ELSE Handled(ed, FALSE, None, Some(<<id, Cmd("click", <<loc.line, loc.column>>)>>)) :
             loc \in GetClickLocation(ed.views[id], ev.row - 1, ev.column - 1)}
    ELSE {Handled(ed, FALSE, None, None)}

\* Editor::handle_input: what can become of the event.  For a mouse event
\* self.views.get_mut(&self.current_view).unwrap() panics when the current
\* view is not in the map.
HandleInput(ed, ev) ==
    IF ev.type = "mouse"
    THEN IF ed.current_view \in DOMAIN ed.views
         THEN HandleMouseEvent(ed, ed.current_view, ev)
         ELSE {Handled(ed, TRUE, None, None)}
    ELSE {HandleKey(ed, ev)}

\* The events of the terminal: the bound keys, a plain character and an
\* arrow key without an entry, a press and a release of the mouse.
InputEvents ==
    BoundKeys \cup {Key("Char", 65), Key("Left", 0),
                    Mouse("press_left", 1, 1), Mouse("press_left", 6, 2),
                    Mouse("release", 1, 1)}

\* The events handled in SpecEditor: a plain character, a key bound to a
\* command of the editor, a key bound to a command of the view, and a
\* click.
EditorInputEvents ==
    {Key("Char", 65), Key("Ctrl", 119), Key("Esc", 0), Mouse("press_left", 1, 1)}

NoInput ==
    [event |-> Key("None", 0), panic |-> FALSE, dispatched |-> None,
     view_command |-> None, current_view |-> None, changed |-> FALSE]

\* No event handled yet.
InputIdle == inp = NoInput

\* Editor::handle_input, in SpecEditor: the editor goes on unless the handler
\* panicked.
EditorInput ==
    /\ \E ev \in EditorInputEvents : \E out \in HandleInput(EdState, ev) :
         /\ ~out.panic
         /\ Becomes(out.ed)
    /\ UNCHANGED <<xi_reply_rx, requested, sent, notEditor>>

EditorInputNext == EditorNext \/ EditorInput

\* Editor::handle_input, with the record of what became of the event: a
\* panic ends the program.
Input ==
    /\ \E ev \in InputEvents : \E out \in HandleInput(EdState, ev) :
         /\ Becomes(out.ed)
         /\ inp' = [event |-> ev,
                    panic |-> out.panic,
                    dispatched |-> out.dispatched,
                    view_command |-> out.view_command,
                    current_view |-> IF current_view \in DOMAIN views
                                     THEN Some(current_view) ELSE None,
                    changed |-> out.ed # EdState]
    /\ UNCHANGED <<xi_reply_rx, requested, sent, notInput>>

\* The program runs: no handler has panicked.
Running == ~inp.panic

InputNext ==
    \/ Running /\ NewView
    \/ Running /\ Poll
    \/ Running /\ HandleResize
    \/ Running /\ Input

(***************************************************************************)
(* The updates of one view and the polls (Editor::update, Editor::poll).   *)
(***************************************************************************)
\* Most updates the engine sends in SpecOrder.
MaxUpdates == 2

\* The update notification number nid, for the view id: its cache has nid
\* lines, so that the content tells the updates apart.
OrderedUpdate(id, nid) ==
    [Notification("update", id, nid) EXCEPT
        !.update = [cache |-> [before |-> 0, after |-> 0,
                               lines |-> [i \in 1..nid |-> LineA]]]]

\* handle_core_event with the next update of a view the engine has created.
OrderUpdate ==
    /\ sent < MaxUpdates
    /\ \E id \in 1..requested :
         LET e == OrderedUpdate(id, sent + 1)
             arrived == [EdState EXCEPT !.hist =
                            Append(@, [view_id |-> id, kind |-> "update", queued |-> FALSE,
                                       replayed |-> FALSE, applied |-> 0])]
         IN  Becomes(HandleCoreEvent(arrived, e))
    /\ sent' = sent + 1
    /\ UNCHANGED <<xi_reply_rx, requested, notEditor>>

OrderNext == NewView \/ Poll \/ OrderUpdate \/ HandleResize

(***************************************************************************)
(* The key-chord parser (src/core/config.rs).  A token is the sequence of  *)
(* its characters (code points); its len() is the number of bytes of its   *)
(* UTF-8 encoding.                                                         *)
(***************************************************************************)
\* Most digits after the "f" of a token.
MaxDigits == 3
\* Most tokens of a descriptor.
MaxTokens == 2
\* Most entries of a list of bindings.
MaxBindings == 3

\* u8::MAX: Key::F holds a u8.
U8Max == 255

\* "f", "ctrl+", "alt+" and "shift+"
TokF == <<102>>
TokCtrl == <<99, 116, 114, 108, 43>>
TokAlt == <<97, 108, 116, 43>>
TokShift == <<115, 104, 105, 102, 116, 43>>

\* The fixed vocabulary of parse_keys: each token with its event.
NamedKeys ==
    {
     <<<<101, 110, 116, 101, 114>>, Key("Char", 10)>>,   \* "enter"
     <<<<116, 97, 98>>, Key("Char", 9)>>,   \* "tab"
     <<<<98, 97, 99, 107, 115, 112, 97, 99, 101>>, Key("Backspace", 0)>>,   \* "backspace"
     <<<<108, 101, 102, 116>>, Key("Left", 0)>>,   \* "left"
     <<<<114, 105, 103, 104, 116>>, Key("Right", 0)>>,   \* "right"
     <<<<117, 112>>, Key("Up", 0)>>,   \* "up"
     <<<<100, 111, 119, 110>>, Key("Down", 0)>>,   \* "down"
     <<<<104, 111, 109, 101>>, Key("Home", 0)>>,   \* "home"
     <<<<101, 110, 100>>, Key("End", 0)>>,   \* "end"
     <<<<112, 97, 103, 101, 117, 112>>, Key("PageUp", 0)>>,   \* "pageup"
     <<<<112, 97, 103, 101, 100, 111, 119, 110>>, Key("PageDown", 0)>>,   \* "pagedown"
     <<<<100, 101, 108, 101, 116, 101>>, Key("Delete", 0)>>,   \* "delete"
     <<<<105, 110, 115, 101, 114, 116>>, Key("Insert", 0)>>,   \* "insert"
     <<<<101, 115, 99, 97, 112, 101>>, Key("Esc", 0)>>,   \* "escape"
     <<<<99, 116, 114, 108, 43, 114, 105, 103, 104, 116>>,
       Unsupported(<<27, 91, 49, 59, 53, 67>>)>>,   \* "ctrl+right"
     <<<<99, 116, 114, 108, 43, 108, 101, 102, 116>>,
       Unsupported(<<27, 91, 49, 59, 53, 68>>)>>,   \* "ctrl+left"
     <<<<99, 116, 114, 108, 43, 104, 111, 109, 101>>,
       Unsupported(<<27, 91, 49, 59, 53, 72>>)>>,   \* "ctrl+home"
     <<<<99, 116, 114, 108, 43, 101, 110, 100>>,
       Unsupported(<<27, 91, 49, 59, 53, 70>>)>>,   \* "ctrl+end"
     <<<<99, 116, 114, 108, 43, 115, 104, 105, 102, 116, 43, 114, 105, 103, 104, 116>>,
       Unsupported(<<27, 91, 49, 59, 54, 67>>)>>,   \* "ctrl+shift+right"
     <<<<99, 116, 114, 108, 43, 115, 104, 105, 102, 116, 43, 108, 101, 102, 116>>,
       Unsupported(<<27, 91, 49, 59, 54, 68>>)>>,   \* "ctrl+shift+left"
     <<<<99, 116, 114, 108, 43, 115, 104, 105, 102, 116, 43, 117, 112>>,
       Unsupported(<<27, 91, 49, 59, 54, 65>>)>>,   \* "ctrl+shift+up"
     <<<<99, 116, 114, 108, 43, 115, 104, 105, 102, 116, 43, 100, 111, 119, 110>>,
       Unsupported(<<27, 91, 49, 59, 54, 66>>)>>,   \* "ctrl+shift+down"
     <<<<99, 116, 114, 108, 43, 115, 104, 105, 102, 116, 43, 104, 111, 109, 101>>,
       Unsupported(<<27, 91, 49, 59, 54, 72>>)>>,   \* "ctrl+shift+home"
     <<<<99, 116, 114, 108, 43, 115, 104, 105, 102, 116, 43, 101, 110, 100>>,
       Unsupported(<<27, 91, 49, 59, 54, 70>>)>>,   \* "ctrl+shift+end"
     <<<<97, 108, 116, 43, 115, 104, 105, 102, 116, 43, 117, 112>>,
       Unsupported(<<27, 91, 49, 59, 52, 65>>)>>,   \* "alt+shift+up"
     <<<<97, 108, 116, 43, 115, 104, 105, 102, 116, 43, 100, 111, 119, 110>>,
       Unsupported(<<27, 91, 49, 59, 52, 66>>)>>,   \* "alt+shift+down"
     <<<<115, 104, 105, 102, 116, 43, 117, 112>>,
       Unsupported(<<27, 91, 49, 59, 50, 65>>)>>,   \* "shift+up"
     <<<<115, 104, 105, 102, 116, 43, 100, 111, 119, 110>>,
       Unsupported(<<27, 91, 49, 59, 50, 66>>)>>,   \* "shift+down"
     <<<<115, 104, 105, 102, 116, 43, 114, 105, 103, 104, 116>>,
       Unsupported(<<27, 91, 49, 59, 50, 67>>)>>,   \* "shift+right"
     <<<<115, 104, 105, 102, 116, 43, 108, 101, 102, 116>>,
       Unsupported(<<27, 91, 49, 59, 50, 68>>)>>,   \* "shift+left"
     <<<<115, 104, 105, 102, 116, 43, 112, 97, 103, 101, 117, 112>>,
       Unsupported(<<27, 91, 53, 59, 50, 126>>)>>,   \* "shift+pageup"
     <<<<115, 104, 105, 102, 116, 43, 112, 97, 103, 101, 100, 111, 119, 110>>,
       Unsupported(<<27, 91, 54, 59, 50, 126>>)>>,   \* "shift+pagedown"
     <<<<115, 104, 105, 102, 116, 43, 101, 110, 100>>,
       Unsupported(<<27, 91, 49, 59, 50, 70>>)>>,   \* "shift+end"
     <<<<115, 104, 105, 102, 116, 43, 104, 111, 109, 101>>,
       Unsupported(<<27, 91, 49, 59, 50, 72>>)>>,   \* "shift+home"
     <<<<99, 116, 114, 108, 43, 112, 97, 103, 101, 117, 112>>,
       Unsupported(<<27, 91, 53, 59, 53, 126>>)>>,   \* "ctrl+pageup"
     <<<<99, 116, 114, 108, 43, 112, 97, 103, 101, 100, 111, 119, 110>>,
       Unsupported(<<27, 91, 54, 59, 53, 126>>)>>    \* "ctrl+pagedown"
    }

\* str::len: the bytes of the token.
ByteLen(t) == Len(Utf8Bytes(t))

\* str::starts_with
StartsWith(t, prefix) ==
    Len(t) >= Len(prefix) /\ SubSeq(t, 1, Len(prefix)) = prefix

IsDigit(c) == c \in 48..57

\* The number a sequence of digits denotes.
RECURSIVE DigitsValue(_)
DigitsValue(d) ==
    IF d = <<>> THEN 0
    ELSE 10 * DigitsValue(SubSeq(d, 1, Len(d) - 1)) + (d[Len(d)] - 48)

\* str::parse::<u8>(): an optional "+", then one digit or more, and a value
\* that fits a u8.
ParseU8(t) ==
    LET d == IF t # <<>> /\ t[1] = 43 THEN Tail(t) ELSE t
    IN  IF d = <<>> \/ (\E i \in 1..Len(d) : ~IsDigit(d[i])) THEN None
        ELSE IF DigitsValue(d) > U8Max THEN None
        ELSE Some(DigitsValue(d))

\* char::to_ascii_uppercase and char::to_ascii_lowercase
ToAsciiUppercase(c) == IF c \in 97..122 THEN c - 32 ELSE c
ToAsciiLowercase(c) == IF c \in 65..90 THEN c + 32 ELSE c

\* parse_keys, the arm of "f": x[1..].parse::<u8>()
ParseFunctionKey(x) ==
    LET val == ParseU8(Tail(x))
    IN  IF val = None THEN None ELSE Some(Key("F", Unwrap(val)))

\* parse_keys, the arm of "ctrl+" and "alt+": the length in bytes selects
\* the case of the last character, or no event.
ParseModified(x) ==
    LET is_alt == StartsWith(x, TokAlt)
        start_length == IF is_alt THEN 4 ELSE 5
        last_char == x[Len(x)]
    IN  IF ByteLen(x) # start_length + 7 /\ ByteLen(x) # start_length + 1 THEN None
        ELSE LET character == IF ByteLen(x) = start_length + 7
                              THEN ToAsciiUppercase(last_char)
                              ELSE ToAsciiLowercase(last_char)
             IN  IF is_alt THEN Some(Key("Alt", character))
                 ELSE Some(Key("Ctrl", character))

\* KeybindingConfig::parse_keys
ParseKeys(keys) ==
    IF Len(keys) # 1 THEN None
    ELSE LET key == keys[1]
             named == {p \in NamedKeys : p[1] = key}
         IN  IF named # {} THEN Some((CHOOSE p \in named : TRUE)[2])
             ELSE IF StartsWith(key, TokF) THEN ParseFunctionKey(key)
             ELSE IF StartsWith(key, TokCtrl) \/ StartsWith(key, TokAlt)
             THEN ParseModified(key)
             ELSE None

\* The characters after a modifier: a lowercase, an uppercase and a
\* two-byte letter (a, Z, e with acute), and a digit.
ModChars == {97, 90, 233, 49}

\* What stands between the modifier and the character: nothing, "shift+",
\* "shaft+" (as long as "shift+") and "shift".
Infixes == {<<>>, TokShift, <<115, 104, 97, 102, 116, 43>>, <<115, 104, 105, 102, 116>>}

\* The digits after "f".
DigitChars == {48, 49, 50, 53, 54}

\* The tokens parsed: the vocabulary, "f" with digits, with "+" and a digit
\* and with a letter, the modified characters, and tokens of no kind.
Tokens ==
    {p[1] : p \in NamedKeys}
    \cup {TokF \o d : d \in SeqsUpTo(DigitChars, MaxDigits)}
    \cup {TokF \o <<43, 49>>, TokF \o <<97>>}
    \cup {m \o i \o <<c>> : m \in {TokCtrl, TokAlt}, i \in Infixes, c \in ModChars}
    \cup {TokCtrl, TokAlt, <<>>, <<120>>, <<101, 110, 116, 101, 114, 120>>}

\* The descriptors: no token, one token, or several.
Descriptors ==
    {<<t>> : t \in Tokens}
    \cup SeqsUpTo({<<101, 110, 116, 101, 114>>, TokCtrl \o <<97>>}, MaxTokens)

NoParse == [keys |-> <<>>, pc |-> "idle", event |-> None]
NoBindings == [pc |-> "idle"]

\* No descriptor parsed, in the specifications that do not parse one.
KeysIdle == kparse = NoParse /\ kcfg = NoBindings

\* A descriptor to parse.
KeysInit == \E keys \in Descriptors : kparse = [keys |-> keys, pc |-> "call", event |-> None]

\* KeybindingConfig::parse_keys(&keys)
KParseKeys ==
    /\ kparse.pc = "call"
    /\ kparse' = [kparse EXCEPT !.pc = "done", !.event = ParseKeys(kparse.keys)]
    /\ UNCHANGED <<kcfg, notKeys>>

KeysNext == KParseKeys

\* A KeymapEntry: its keys and the name of its command.
KeymapEntry(keys, command) == [keys |-> keys, command |-> command]

\* The command a name resolves to (parser_map, from_keymap_entry and
\* from_prompt are not among the sources): two names resolve to one command
\* each, one has a parser that returns an error, one has no parser.
ResolveCommand(name) ==
    CASE name = "next_buffer" -> Some(Cmd("NextBuffer", <<>>))
      [] name = "close_view" -> Some(Cmd("CloseCurrentView", <<>>))
      [] OTHER -> None

\* The entries of a list: three descriptors ("ctrl+n", "ctrl+w" and one
\* that does not parse) for each of four names.
BindingEntries ==
    {KeymapEntry(<<k>>, n) :
        k \in {TokCtrl \o <<110>>, TokCtrl \o <<119>>, <<120, 120>>},
        n \in {"next_buffer", "close_view", "unimplemented", "unknown"}}

\* The command is taken as never found before.
NeverFound(found_cmds, cmd) == FALSE

\* found_cmds.contains(&cmd)
AlreadyFound(found_cmds, cmd) == cmd \in Range(found_cmds)

\* KeybindingConfig::parse, one turn of the loop over the bindings: the
\* configuration after the entry binding.
ParseBinding(cfg, binding) ==
    LET cmd == ResolveCommand(binding.command)
        keyevent == ParseKeys(binding.keys)
    IN  IF cmd = None THEN cfg
        ELSE IF AlreadyFound(cfg.found_cmds, Unwrap(cmd)) THEN cfg
        ELSE IF keyevent = None THEN cfg
        ELSE [cfg EXCEPT
                 !.keymap = MapInsert(@, Unwrap(keyevent), Unwrap(cmd)),
                 !.keybinding = MapInsert(@, binding.command, binding.keys[1]),
                 !.found_cmds = Append(@, Unwrap(cmd))]

\* KeybindingConfig::parse before its loop: the bindings read, an empty
\* keymap, no command found.
BindingsInit ==
    \E bindings \in SeqsUpTo(BindingEntries, MaxBindings) :
        kcfg = [pc |-> "loop", bindings |-> bindings, ix |-> 1,
                keymap |-> <<>>, keybinding |-> <<>>, found_cmds |-> <<>>]

\* for binding in bindings { ... }
KNextBinding ==
    /\ kcfg.pc = "loop"
    /\ kcfg.ix <= Len(kcfg.bindings)
    /\ kcfg' = [ParseBinding(kcfg, kcfg.bindings[kcfg.ix]) EXCEPT !.ix = kcfg.ix + 1]
    /\ UNCHANGED <<kparse, notKeys>>

\* Ok(KeybindingConfig{keymap, parser_map})
KReturn ==
    /\ kcfg.pc = "loop"
    /\ kcfg.ix > Len(kcfg.bindings)
    /\ kcfg' = [kcfg EXCEPT !.pc = "done"]
    /\ UNCHANGED <<kparse, notKeys>>

BindingsNext == KNextBinding \/ KReturn

(***************************************************************************)
(* The command prompt (src/widgets/command_prompt.rs).  The buffer is a    *)
(* String, modelled as the sequence of its characters.                     *)
(***************************************************************************)
\* Most characters typed into the prompt.
MaxPrompt == 4

\* "s", "save", "q" and "quit"
StrS == <<115>>
StrSave == <<115, 97, 118, 101>>
StrQ == <<113>>
StrQuit == <<113, 117, 105, 116>>

\* What a handler of the prompt leaves: the buffer and the command returned.
Prompted(keys, cmd) == [keys |-> keys, cmd |-> cmd]

\* CommandPrompt::back
Back(keys) ==
    IF Len(Utf8Bytes(keys)) > 0
    THEN Prompted(SubSeq(keys, 1, Len(keys) - 1), None)
    ELSE Prompted(keys, Some(Cmd("Cancel", <<>>)))

\* CommandPrompt::new_key
NewKey(keys, chr) == Prompted(Append(keys, chr), None)

\* The command finalize returns for the buffer.
FinalizeCmd(keys) ==
    IF keys = StrS \/ keys = StrSave THEN Cmd("Save", <<None>>)
    ELSE IF keys = StrQ \/ keys = StrQuit THEN Cmd("Quit", <<>>)
    ELSE Cmd("Invalid", <<keys>>)

\* finalize without the reset of the buffer.
FinalizeKeepsKeys(keys) == Prompted(keys, Some(FinalizeCmd(keys)))

\* CommandPrompt::finalize
Finalize(keys) == Prompted(<<>>, Some(FinalizeCmd(keys)))

\* CommandPrompt::handle_input
PromptHandleInput(keys, input) ==
    IF input.type = "key" /\ input.kind = "Char" /\ input.c = 10 THEN Finalize(keys)
    ELSE IF input.type = "key" /\ input.kind = "Backspace" THEN Back(keys)
    ELSE IF input.type = "key" /\ input.kind = "Char" THEN NewKey(keys, input.c)
    ELSE Prompted(keys, None)

\* The characters typed: the letters of "save" and "quit".
PromptChars == {115, 97, 118, 101, 113, 117, 105, 116}

\* The events the prompt receives: a character, enter, backspace, another
\* key and a click.
PromptEvents ==
    {Key("Char", c) : c \in PromptChars \cup {10}}
    \cup {Key("Backspace", 0), Key("Esc", 0), Mouse("press_left", 1, 1)}

\* CommandPrompt::default(), no event received yet.
PromptNew == [keys |-> <<>>, before |-> <<>>, input |-> Key("None", 0), cmd |-> None]

\* The prompt at rest, in the specifications that do not drive it.
PromptIdle == prompt = PromptNew

\* The prompt receives a terminal event.
PromptInput ==
    /\ \E input \in PromptEvents :
         LET out == PromptHandleInput(prompt.keys, input)
         IN  /\ Len(out.keys) <= MaxPrompt
             /\ prompt' = [keys |-> out.keys, before |-> prompt.keys,
                           input |-> input, cmd |-> out.cmd]
    /\ UNCHANGED notPrompt

PromptNext == PromptInput

(***************************************************************************)
(* The specifications.                                                     *)
(***************************************************************************)
InitDiff == DiffInit /\ RenderIdle /\ ViewIdle /\ EditorNew /\ StyleIdle /\ ScreenIdle /\ InputIdle /\ KeysIdle /\ PromptIdle
SpecDiff == InitDiff /\ [][DiffNext]_vars

InitRender == RenderInit /\ DiffIdle /\ ViewIdle /\ EditorNew /\ StyleIdle /\ ScreenIdle /\ InputIdle /\ KeysIdle /\ PromptIdle
SpecRender == InitRender /\ [][RenderNext]_vars

InitView == ViewInit /\ DiffIdle /\ RenderIdle /\ EditorNew /\ StyleIdle /\ ScreenIdle /\ InputIdle /\ KeysIdle /\ PromptIdle
SpecView == InitView /\ [][ViewNext]_vars

InitEditor == EditorNew /\ DiffIdle /\ RenderIdle /\ ViewIdle /\ StyleIdle /\ ScreenIdle /\ InputIdle /\ KeysIdle /\ PromptIdle
SpecEditor == InitEditor /\ [][EditorInputNext]_vars

InitStyle == StyleInit /\ DiffIdle /\ RenderIdle /\ ViewIdle /\ EditorNew /\ ScreenIdle /\ InputIdle /\ KeysIdle /\ PromptIdle
SpecStyle == InitStyle /\ [][StyleNext]_vars

InitInput == EditorNew /\ InputIdle /\ DiffIdle /\ RenderIdle /\ ViewIdle /\ StyleIdle /\ ScreenIdle /\ KeysIdle /\ PromptIdle
SpecInput == InitInput /\ [][InputNext]_vars

InitOrder == EditorNew /\ InputIdle /\ DiffIdle /\ RenderIdle /\ ViewIdle /\ StyleIdle /\ ScreenIdle /\ KeysIdle /\ PromptIdle
SpecOrder == InitOrder /\ [][OrderNext]_vars

InitKeys ==
    /\ KeysInit /\ kcfg = NoBindings
    /\ EditorNew /\ InputIdle /\ DiffIdle /\ RenderIdle /\ ViewIdle /\ StyleIdle /\ ScreenIdle /\ PromptIdle
SpecKeys == InitKeys /\ [][KeysNext]_vars

InitBindings ==
    /\ BindingsInit /\ kparse = NoParse
    /\ EditorNew /\ InputIdle /\ DiffIdle /\ RenderIdle /\ ViewIdle /\ StyleIdle /\ ScreenIdle /\ PromptIdle
SpecBindings == InitBindings /\ [][BindingsNext]_vars

InitScreen == ScreenInit /\ DiffIdle /\ RenderIdle /\ ViewIdle /\ EditorNew /\ StyleIdle /\ InputIdle /\ KeysIdle /\ PromptIdle
SpecScreen == InitScreen /\ [][ScreenNext]_vars

InitPrompt ==
    /\ PromptIdle
    /\ EditorNew /\ InputIdle /\ DiffIdle /\ RenderIdle /\ ViewIdle /\ StyleIdle /\ ScreenIdle /\ KeysIdle
SpecPrompt == InitPrompt /\ [][PromptNext]_vars

(***************************************************************************)
(* Properties of the diff engine, checked under SpecDiff.                  *)
(***************************************************************************)
\* An update is being applied, or has just panicked: cache is still the
\* old_lines the ops are applied to.
InUpdate == dpc \in {"apply", "panic"}

\* The lines the op applied last has appended to new_lines.
Appended == SubSeq(new_lines, last.len + 1, Len(new_lines))

\* C1: while the Copy, Skip and Update counts applied so far do not exceed
\* the old line count (so the op sequence can still consume every old line
\* exactly), no op has read outside old_lines and new_lines has as many
\* lines as the Copy, Update and Invalidate counts and the Ins line lists
\* add up to.
C1_BalancedOpsAreSafe ==
    (InUpdate /\ consumed <= Len(cache)) =>
        (dpc # "panic" /\ Len(new_lines) = emitted)

\* C2: Update(n, L) applied at old index k, with the n old lines present,
\* appends n lines, the i-th with the text of old_lines[k+i] and the cursor
\* markers and style runs of L[i].
C2_UpdateAtAnyIndex ==
    (InUpdate /\ last.op.op = "update" /\ last.k + last.op.n <= Len(cache)) =>
        /\ dpc = "apply"
        /\ Len(Appended) = last.op.n
        /\ \A i \in 1..last.op.n :
             /\ Appended[i].text = cache[last.k + i].text
             /\ Appended[i].cursor = Unwrap(last.op.lines)[i].cursor
             /\ Appended[i].styles = Unwrap(last.op.lines)[i].styles

\* C3: Ins(lines) appends its lines in order and leaves the old index where
\* it was.
C3_InsKeepsOldIndex ==
    (InUpdate /\ last.op.op = "ins") =>
        /\ Appended = Unwrap(last.op.lines)
        /\ old_ix = last.k

\* C4: a Copy or Update that reaches past the end of the old lines ends in
\* an error the process survives, and the cache is the one before the
\* update.
C4_OverrunIsRecoverable ==
    (/\ last.op.op \in {"copy", "update"}
     /\ last.op.n > 0
     /\ last.k + last.op.n > Len(cache)
     /\ dpc # "done") =>
        dpc # "panic"

\* C5: Copy(n) applied at old index 0 with n <= len(old_lines) appends
\* old_lines[0..n) unchanged and in order; as the only op, Copy(len(old_lines))
\* gives the old line sequence back.
C5_CopyFromZero ==
    (InUpdate /\ last.op.op = "copy" /\ last.k = 0 /\ last.op.n <= Len(cache)) =>
        /\ dpc = "apply"
        /\ Appended = SubSeq(cache, 1, last.op.n)
        /\ (last.len = 0 /\ last.op.n = Len(cache)) => new_lines = cache

\* A Copy of two different old lines, as the first op of the update.
C5_Witness ==
    /\ dpc = "apply"
    /\ last.op.op = "copy" /\ last.k = 0 /\ last.len = 0
    /\ last.op.n = 2 /\ Len(cache) = 2 /\ cache[1] # cache[2]
    /\ new_lines = cache

(***************************************************************************)
(* Properties of the escaping pass, checked under SpecRender.              *)
(***************************************************************************)
\* What the character scanned last has appended to the escaped text.
Escaped == SubSeq(text, lastc.len + 1, Len(text))

\* C8: after each character of the line, the running column of the
\* escaping pass is the column that the fold of translate_char_width (the
\* column of render_cursor and of the click translation) gives for the same
\* prefix of characters.
C8_OneWidthFunction ==
    rpc # "panic" => position = FoldWidth(tab_size, rline.text, rix)

\* A control character, then a tab off its tab stop, then a plain character.
C8_Witness ==
    /\ rpc = "scan" /\ rix = 3 /\ tab_size = 4
    /\ rline.text = <<127, TAB, 65>>
    /\ position = 5

\* C9: a tab at running column p with tab width w expands to w - (p mod w)
\* spaces, at least 1 and at most w of them, and the column after it is a
\* multiple of w; with w = 4 that is 4 spaces at column 0, 1 at column 3 and
\* 4 at column 4.
C9_TabExpansion ==
    (lastc.c = TAB /\ rpc # "panic") =>
        LET w == tab_size
            p == lastc.pos
            k == Len(Escaped)
        IN  /\ \A i \in 1..k : Escaped[i] = SPACE
            /\ k = w - (p % w)
            /\ 1 <= k /\ k <= w
            /\ position = p + k
            /\ position % w = 0
            /\ (w = 4 /\ p = 0) => k = 4
            /\ (w = 4 /\ p = 3) => k = 1
            /\ (w = 4 /\ p = 4) => k = 4

\* A tab at column 3 with tab width 4: one space.
C9_Witness ==
    /\ rpc = "scan" /\ tab_size = 4
    /\ lastc.c = TAB /\ lastc.pos = 3
    /\ Escaped = <<SPACE>>
    /\ position = 4

WindowHolds(w, cl, total) ==
    /\ w.start <= cl /\ cl < w.end
    /\ w.end <= total
    /\ total >= w.height => w.end - w.start = w.height

\* The method called last has recomputed the window for a cursor line
\* inside the cache.
Recomputed ==
    /\ vop.recomputed
    /\ 0 <= view.cursor.line - view.cache.before
    /\ view.cursor.line - view.cache.before < Len(view.cache.lines)

\* C6 (as claimed): after a window recomputation update(cursor_line, total)
\* with 0 <= cursor_line < total, start <= cursor_line < end, end <= total,
\* and end - start is the window height whenever total >= height.
C6_WindowInvariant ==
    Recomputed =>
        WindowHolds(view.window, view.cursor.line - view.cache.before,
                    Len(view.cache.lines))

\* C6 (amended): the same for every window height of at least one row.
C6_WindowInvariantRows ==
    (Recomputed /\ view.window.height >= 1) =>
        WindowHolds(view.window, view.cursor.line - view.cache.before,
                    Len(view.cache.lines))

\* A render has scrolled a two-row window down to the cursor on the last of
\* three lines, behind one invalid line.
C6_Witness ==
    /\ vop.op = "render" /\ vop.recomputed
    /\ view.window = [start |-> 1, end |-> 3, height |-> 2]
    /\ view.cache.before = 1 /\ Len(view.cache.lines) = 3
    /\ view.cursor.line = 3

(***************************************************************************)
(* Claims about the delayed events (SpecEditor).                           *)
(***************************************************************************)
\* How many times notification nid is in the queue q.
Queued(q, nid) == Cardinality({k \in 1..Len(q) : q[k].nid = nid})

\* Every notification sent is either in the queue once, or was applied once.
Conserved ==
    \A nid \in 1..sent : Queued(delayed_events, nid) + hist[nid].applied = 1

\* C7 as stated: a notification that arrives for a view id not yet in the
\* views map is queued and never dropped, and once the NewView reply for
\* that id has been processed a later poll applies it to that view, exactly
\* once: a queued notification that a poll has handled again after the
\* reply of its view was received has been applied, once.
C7_ReplayedOnceCreated ==
    /\ Conserved
    /\ \A nid \in 1..sent :
           hist[nid].queued /\ hist[nid].replayed => hist[nid].applied = 1

\* C7, amended: a notification that arrives for a view id not in the views
\* map is queued and never dropped; every poll applies, exactly once, each
\* queued notification whose view is in the views map when the poll starts,
\* and removes it from the queue; a queued notification whose view is not in
\* the map then (its reply is not yet received, or the view was closed)
\* stays queued and is not applied.
C7_ReplayedWhileOpen ==
    /\ []Conserved
    /\ [][Poll =>
            \A k \in 1..Len(delayed_events) :
                LET e == delayed_events[k]
                IN  IF e.view_id \in DOMAIN views
                    THEN /\ hist'[e.nid].applied = hist[e.nid].applied + 1
                         /\ Queued(delayed_events', e.nid) = 0
                    ELSE /\ hist'[e.nid].applied = hist[e.nid].applied
                         /\ Queued(delayed_events', e.nid) = 1]_vars

\* A notification was queued on arrival, the NewView reply of its view was
\* received, and a poll has applied it, once.
C7_Witness ==
    \E nid \in 1..sent :
        /\ hist[nid].queued
        /\ hist[nid].applied = 1
        /\ hist[nid].view_id \in Created
        /\ Queued(delayed_events, nid) = 0

(***************************************************************************)
(* Claims about the style injection (SpecStyle).                           *)
(***************************************************************************)
\* The end of run number i as the sum of the offsets and lengths of the runs
\* up to it, in plain integers; the start of run number i.
RECURSIVE AbsEnd(_, _)
AbsEnd(runs, i) ==
    IF i = 0 THEN 0 ELSE AbsEnd(runs, i - 1) + runs[i].offset + runs[i].length
AbsStart(runs, i) == AbsEnd(runs, i - 1) + runs[i].offset

\* The runs have non-negative offsets and lie within the text: they end at
\* or before its last character.
RunsWithinText ==
    \A i \in 1..Len(sline.styles) :
        /\ sline.styles[i].offset >= 0
        /\ AbsEnd(sline.styles, i) <= Len(sline.text)

\* The runs whose style is in the table: the ones that emit sequences.
Emitted == {i \in 1..Len(sline.styles) : sline.styles[i].style_id \in sstyles}

IsTextByte(b) == ~IsSeqByte(b)

\* The text with the inserted sequences removed.
Stripped == SelectSeq(stext, IsTextByte)

\* Where the first byte of a sequence is in the text, and how many bytes of
\* the escaped text are before it.
PosOf(b) == CHOOSE k \in 1..Len(stext) : stext[k] = b /\ \A j \in 1..(k - 1) : stext[j] # b
TextBefore(b) == Cardinality({j \in 1..(PosOf(b) - 1) : IsTextByte(stext[j])})

\* A sequence is in the text whole, its bytes next to each other.
Whole(b) ==
    /\ Cardinality({k \in 1..Len(stext) : stext[k] = b}) = SeqLen
    /\ \A j \in 0..(SeqLen - 1) : stext[PosOf(b) + j] = b

\* C11: for a line whose style runs have non-negative offsets and lie within
\* the text (empty runs and runs that share an offset included), the
\* insertion does not panic, the sequences are inserted in non-increasing
\* offset order, removing them from the output gives back the escaped text,
\* and the start sequence of each run is before that run's reset sequence.
C11_InsertionKeepsText ==
    RunsWithinText =>
        /\ spc \notin {"panic_boundary", "panic_underflow"}
        /\ spc \in {"insert", "done"} =>
              \A j \in 1..(Len(sall) - 1) : sall[j].idx >= sall[j + 1].idx
        /\ spc = "done" =>
              /\ Stripped = sescaped
              /\ \A i \in Emitted :
                    /\ Whole(SeqByte(i, 0)) /\ Whole(SeqByte(i, 1))
                    /\ PosOf(SeqByte(i, 0)) < PosOf(SeqByte(i, 1))

\* How many bytes the escaped form of the first n characters of the text
\* takes.
EscapedOffset(n) == Len(Utf8Bytes(EscapedText(stab, sline.text, n)))

\* C12: the insertion points of a run are positions in the escaped text: the
\* start sequence of a run over the characters s..e of the text is right
\* before the rendered form of character s, the reset sequence right after
\* the rendered form of character e-1, also after a tab or a control
\* character.
C12_OffsetsInEscapedText ==
    RunsWithinText =>
        /\ spc # "panic_boundary"
        /\ spc = "done" =>
              \A i \in Emitted :
                  /\ TextBefore(SeqByte(i, 0)) = EscapedOffset(AbsStart(sline.styles, i))
                  /\ TextBefore(SeqByte(i, 1)) = EscapedOffset(AbsEnd(sline.styles, i))

\* Both styles of the model's runs.
AllStyleIds == {0, 1}

\* The sequence is one of a run whose style is in the table.
OfKnownStyle(x) == RunOf(x.seq[1]) \in Emitted

RECURSIVE ClampedEnd(_, _)
ClampedEnd(runs, i) ==
    IF i = 0 THEN 0
    ELSE Max(ClampedEnd(runs, i - 1) + runs[i].offset, 0) + runs[i].length
ClampedStart(runs, i) == Max(ClampedEnd(runs, i - 1) + runs[i].offset, 0)

\* C14: for a run with a negative offset the start is prev_end - |offset|,
\* clamped at 0 when |offset| is greater than prev_end: computing the style
\* sequences never underflows or panics.
C14_NegativeOffsetClamped ==
    /\ spc # "panic_underflow"
    /\ spc \in {"insert", "done"} =>
          \A j \in 1..Len(sall) :
              LET i == RunOf(sall[j].seq[1])
              IN  sall[j].idx = IF KindOf(sall[j].seq[1]) = 0
                                THEN ClampedStart(sline.styles, i)
                                ELSE ClampedEnd(sline.styles, i)

(***************************************************************************)
(* Claims about the gutter and the rows of a render pass (SpecView).       *)
(***************************************************************************)
\* The lines of the document: before + materialized + after.
DocumentLines == view.cache.before + Len(view.cache.lines) + view.cache.after

\* C19 (as claimed): after the window recomputation runs, the gutter width
\* is max(digits(before + materialized + after), 4) + 1.
C19_GutterFieldPlusSeparator ==
    vop.recomputed => view.cfg.gutter_size = Max(Digits(DocumentLines), 4) + 1

\* C19, amended: after the window recomputation runs, the gutter width is
\* max(digits(before + materialized + after) + 1, 4): the separator column
\* is counted inside the minimum of 4.
C19_GutterAtLeastFour ==
    vop.recomputed => view.cfg.gutter_size = Max(Digits(DocumentLines) + 1, 4)

\* The window was recomputed for a document of ten thousand lines: five
\* digits and the separator.
C19_Witness ==
    /\ vop.recomputed
    /\ DocumentLines = 10000
    /\ view.cfg.gutter_size = 6

\* The number of materialized lines inside the window.
VisibleCount ==
    Min(WindowSize(view.window), Max(Len(view.cache.lines) - view.window.start, 0))

\* C20: every render pass writes each screen row 1..window.size() exactly
\* once: first the materialized lines of the visible slice, each with the
\* document line number before + window.start() + row index, then blank
\* rows without line number and text; no row twice, none skipped, for any
\* cache length and window start.
C20_EveryRowOnce ==
    vop.op = "render" =>
        LET rows == RenderLines(view)
        IN  /\ Len(rows) = WindowSize(view.window)
            /\ \A k \in 1..Len(rows) :
                  /\ rows[k].row = k
                  /\ k <= VisibleCount =>
                        /\ rows[k].chars = view.cache.lines[view.window.start + k].text
                        /\ view.cfg.display_gutter =>
                              rows[k].line_no =
                                  Some(view.cache.before + view.window.start + (k - 1) + 1)
                  /\ k > VisibleCount =>
                        /\ rows[k].line_no = None
                        /\ rows[k].chars = <<>>

(***************************************************************************)
(* Claims about the cursor and the clicks (SpecScreen).                    *)
(***************************************************************************)
\* C15: in one render pass the terminal cursor is placed on the screen
\* column where render_lines draws the character at the cursor's document
\* column: the column the text of the cursor's row starts at (after the
\* gutter when it is displayed, the first column when line numbers are
\* toggled off) plus the running-column width of the characters before the
\* cursor column.
C15_CursorOnItsCharacter ==
    sout.op = "render" /\ sout.cursor # None /\ scr.cache.lines # <<>> =>
        LET cur == Unwrap(sout.cursor)
        IN  cur.y <= Len(sout.rows) =>
                LET row == sout.rows[cur.y]
                IN  cur.x = row.text_column
                              + FoldWidth(scr.cfg.tab_size, row.chars, scr.cursor.column)

\* The row r of the screen shows a materialized line.
RowHoldsLine(r) == r + scr.window.start < Len(scr.cache.lines)

\* C16: for a click on screen row r, the line whose characters are walked to
\* translate the click column is the materialized line at cache index
\* r + window.start(), the line whose document number r + before +
\* window.start() is returned, for every window position.
C16_WalksTheClickedLine ==
    sout.op = "click" /\ sout.location.walked # None =>
        /\ sout.location.panic \/ sout.location.line = sout.x + scr.cache.before + scr.window.start
        /\ Unwrap(sout.location.walked) = sout.x + scr.window.start

\* C17: for a click past the gutter on a materialized line the computation
\* never underflows and the document column returned is between 0 and the
\* number of characters of the line (the end-of-line column, returned for a
\* click past the last character).
C17_ColumnWithinLine ==
    sout.op = "click" /\ sout.location.walked # None =>
        /\ ~sout.location.panic
        /\ 0 <= sout.location.column
        /\ sout.location.column <= Len(scr.cache.lines[Unwrap(sout.location.walked) + 1].text)

\* C18: a click whose column lies inside the gutter, on a row that holds a
\* materialized line, returns document column 0 and the document line number
\* of that row, whatever the line's content.
C18_GutterClick ==
    sout.op = "click" /\ sout.y < scr.cfg.gutter_size /\ RowHoldsLine(sout.x) =>
        /\ ~sout.location.panic
        /\ sout.location.column = 0
        /\ sout.location.line = sout.x + scr.cache.before + scr.window.start

\* A click in the gutter of the first row of a scrolled window, on a line
\* with a tab.
C18_Witness ==
    /\ sout.op = "click"
    /\ sout.x = 0 /\ sout.y = 3
    /\ scr.window.start = 1
    /\ scr.cache.before = 1
    /\ scr.cache.lines[2].text = <<TAB, 65>>
    /\ sout.location = Location(FALSE, 2, 0, None)

(***************************************************************************)
(* Claims about the views of the editor (SpecEditor).                      *)
(***************************************************************************)
\* C29: after any sequence of NewView replies, next_buffer, prev_buffer and
\* close_view calls (with or without an explicit view id), whenever at
\* least one view is open, current_view is the id of a view present in the
\* views map.
C29_CurrentViewIsOpen ==
    view_order # <<>> => current_view \in DOMAIN views

\* C21: if a write to the output stream fails during a render pass, while
\* writing the lines or while positioning the cursor, render returns the
\* failure to its caller, writes nothing after it in that pass, and the
\* view's cache and cursor are the same as before the call.
C21_WriteFailureReturned ==
    sout.op = "render_failing" /\ sout.failed # None =>
        /\ sout.result = "Err"
        /\ sout.failed = Some("lines") => sout.rows = <<>> /\ sout.cursor = None
        /\ sout.failed = Some("cursor") => sout.cursor = None
        /\ scr.cache = sout.cache
        /\ scr.cursor = sout.cursor_before

(***************************************************************************)
(* Claims about the scroll requests and the cursor of a view.              *)
(***************************************************************************)
\* C22: after every recomputation of the window, on resize and on a cursor
\* move that shifts the visible slice, the view sends the engine a scroll
\* request for the new visible range, starting at before + window.start():
\* no change of the window goes unreported to the engine.
C22_WindowChangeReported ==
    [][vop'.recomputed /\ view'.window # view.window =>
          /\ vop'.scroll # None
          /\ Unwrap(vop'.scroll)[1] = view'.cache.before + view'.window.start]_vars

\* A scroll-to notification addressed to the view id is handled in this
\* step, on arrival or when a poll replays it.
ScrollToHandled(id) ==
    \E nid \in DOMAIN hist' :
        /\ hist'[nid].view_id = id
        /\ hist'[nid].kind = "scroll_to"
        /\ hist'[nid].applied > (IF nid \in DOMAIN hist THEN hist[nid].applied ELSE 0)

\* C23: the cursor (line, column) of a view changes only in a step that
\* handles a scroll-to notification addressed to that view: cache updates,
\* config changes, resizes, key and mouse input, commands and render passes
\* leave it unchanged, and a scroll-to for one view leaves the cursor of
\* every other view unchanged.
C23_CursorFrame ==
    [][\A id \in (DOMAIN views) \cap (DOMAIN views') :
          views'[id].cursor # views[id].cursor => ScrollToHandled(id)]_vars

\* A scroll-to has moved the cursor of view 1 while view 2 is open with its
\* cursor where it was.
C23_Witness ==
    /\ DOMAIN views = {1, 2}
    /\ views[1].cursor = [line |-> 1, column |-> 0]
    /\ views[2].cursor = [line |-> 0, column |-> 0]
    /\ \E nid \in DOMAIN hist :
         hist[nid].kind = "scroll_to" /\ hist[nid].view_id = 1 /\ hist[nid].applied = 1

(***************************************************************************)
(* Claims about the input of the editor (SpecInput).                       *)
(***************************************************************************)
\* C24: a key event that has an entry in the keymap is dispatched as its
\* bound command and is never inserted as text; a key event with no entry
\* becomes Insert(c) for the current view only when it is a plain character
\* key (and there is a current view), and is otherwise dropped; without an
\* entry the state of the editor does not change.
C24_KeymapFirst ==
    inp.event.type = "key" /\ inp.event.kind # "None" =>
        IF inp.event \in DOMAIN KeyMap
        THEN /\ inp.dispatched = Some(KeyMap[inp.event])
             /\ inp.view_command # None => Unwrap(inp.view_command)[2].name # "Insert"
        ELSE /\ inp.dispatched = None
             /\ ~inp.changed
             /\ IF inp.event.kind = "Char" /\ inp.current_view # None
                THEN inp.view_command =
                         Some(<<Unwrap(inp.current_view), Insert(inp.event.c)>>)
                ELSE inp.view_command = None

\* The enter key, a plain character key with an entry in the keymap, was
\* pressed with a view open: the view received the bound command.
C24_Witness ==
    /\ inp.event = Key("Char", 10)
    /\ inp.current_view # None
    /\ inp.dispatched = Some(Cmd("InsertNewline", <<>>))
    /\ inp.view_command = Some(<<Unwrap(inp.current_view), Cmd("InsertNewline", <<>>)>>)

\* C30: no terminal input event crashes the editor in any reachable state:
\* a mouse event or a key event received while no view is open is ignored
\* and leaves the state of the editor unchanged.
C30_NoInputCrashes ==
    /\ ~inp.panic
    /\ inp.event.kind # "None" /\ inp.current_view = None => ~inp.changed

(***************************************************************************)
(* Claims about the order of the updates (SpecOrder).                      *)
(***************************************************************************)
\* The updates the engine has sent for the view id.
UpdatesOf(id) == {nid \in DOMAIN hist : hist[nid].view_id = id /\ hist[nid].kind = "update"}

\* The last update in the set S of updates.
LastOf(S) == CHOOSE m \in S : \A n \in S : n <= m

\* C28: the updates of one view are applied to its cache in the order the
\* engine sent them, also when the earlier ones were delayed: no update is
\* applied before an update sent earlier for the same view, and the cache of
\* a view is the one of the last update applied to it.
C28_UpdatesInOrder ==
    \A id \in 1..requested :
        /\ \A n1, n2 \in UpdatesOf(id) :
               n1 < n2 /\ hist[n2].applied > 0 => hist[n1].applied > 0
        /\ id \in DOMAIN views =>
               LET applied == {n \in UpdatesOf(id) : hist[n].applied > 0}
               IN  applied # {} =>
                       views[id].cache = OrderedUpdate(id, LastOf(applied)).update.cache

(***************************************************************************)
(* Claims about the key-chord parser (SpecKeys, SpecBindings).             *)
(***************************************************************************)
\* The letters among the characters of the model, and their two cases.
IsLetter(c) == c \in (65..90) \cup (97..122) \cup {201, 233}
Lowercase(c) == IF c \in (65..90) \cup {201} THEN c + 32 ELSE c
Uppercase(c) == IF c \in (97..122) \cup {233} THEN c - 32 ELSE c

\* The digits of a natural number.
RECURSIVE DigitsOf(_)
DigitsOf(n) == IF n < 10 THEN <<48 + n>> ELSE Append(DigitsOf(n \div 10), 48 + (n % 10))

\* C25: for every single letter x, the one-token descriptor "ctrl+x" parses
\* to Ctrl(lowercase x), "ctrl+shift+x" to Ctrl(uppercase X), "alt+x" to
\* Alt(lowercase x) and "alt+shift+x" to Alt(uppercase X); "f" followed by
\* the digits of N parses to function key N, for the N a function key can
\* have.
C25_ModifiedLetters ==
    kparse.pc = "done" /\ Len(kparse.keys) = 1 =>
        LET x == kparse.keys[1]
        IN  /\ \A c \in ModChars : IsLetter(c) =>
                  /\ x = TokCtrl \o <<c>> => kparse.event = Some(Key("Ctrl", Lowercase(c)))
                  /\ x = TokCtrl \o TokShift \o <<c>> =>
                         kparse.event = Some(Key("Ctrl", Uppercase(c)))
                  /\ x = TokAlt \o <<c>> => kparse.event = Some(Key("Alt", Lowercase(c)))
                  /\ x = TokAlt \o TokShift \o <<c>> =>
                         kparse.event = Some(Key("Alt", Uppercase(c)))
            /\ \A n \in 0..U8Max :
                  x = TokF \o DigitsOf(n) => kparse.event = Some(Key("F", n))

\* The descriptor is in the vocabulary or the grammar: one token that is a
\* named key, "f" and digits, or "ctrl+" or "alt+" followed by one letter
\* or by "shift+" and one letter.
InGrammar(keys) ==
    /\ Len(keys) = 1
    /\ LET x == keys[1]
       IN  \/ \E p \in NamedKeys : p[1] = x
           \/ /\ StartsWith(x, TokF)
              /\ Len(x) >= 2
              /\ \A i \in 2..Len(x) : IsDigit(x[i])
           \/ \E m \in {TokCtrl, TokAlt} :
                 /\ StartsWith(x, m)
                 /\ \/ Len(x) = Len(m) + 1
                    \/ /\ Len(x) = Len(m) + 7
                       /\ SubSeq(x, Len(m) + 1, Len(m) + 6) = TokShift
                 /\ IsLetter(x[Len(x)])

\* C26: parse_keys yields no event for every descriptor outside the
\* vocabulary and the grammar: no token or several, and a token that is
\* neither a named key, nor "f" and digits, nor "ctrl+" or "alt+" followed
\* by exactly one letter or by "shift+" and exactly one letter.
C26_OutsideGrammarNoEvent ==
    kparse.pc = "done" /\ ~InGrammar(kparse.keys) => kparse.event = None

\* The chords the keymap binds to the command.
ChordsOf(cmd) == {ev \in DOMAIN kcfg.keymap : kcfg.keymap[ev] = cmd}

\* The entry i resolves to the command and its chord parses.
Binds(i, cmd) ==
    /\ ResolveCommand(kcfg.bindings[i].command) = Some(cmd)
    /\ ParseKeys(kcfg.bindings[i].keys) # None

\* The first entry in list order that resolves to the command and whose
\* chord parses.
FirstBinding(cmd) ==
    CHOOSE i \in 1..Len(kcfg.bindings) : Binds(i, cmd) /\ \A j \in 1..(i - 1) : ~Binds(j, cmd)

\* C27: after building the binding table from a list of entries, each
\* resolved command is bound to at most one chord, and that chord is the one
\* of the first entry in list order that resolves to the command and whose
\* chord parses: the later entries for the command add nothing.
C27_FirstBindingWins ==
    kcfg.pc = "done" =>
        \A cmd \in {Cmd("NextBuffer", <<>>), Cmd("CloseCurrentView", <<>>)} :
            /\ Cardinality(ChordsOf(cmd)) <= 1
            /\ \A ev \in ChordsOf(cmd) :
                  ev = Unwrap(ParseKeys(kcfg.bindings[FirstBinding(cmd)].keys))

\* Two entries for one command with two chords: the keymap holds the first.
C27_Witness ==
    /\ kcfg.pc = "done"
    /\ kcfg.bindings = <<KeymapEntry(<<TokCtrl \o <<110>>>>, "next_buffer"),
                         KeymapEntry(<<TokCtrl \o <<119>>>>, "next_buffer")>>
    /\ DOMAIN kcfg.keymap = {Key("Ctrl", 110)}
    /\ kcfg.keymap[Key("Ctrl", 110)] = Cmd("NextBuffer", <<>>)

(***************************************************************************)
(* Claims about the editor's views across resizes and buffer switches      *)
(* (SpecEditor).                                                           *)
(***************************************************************************)
\* C31: after any sequence of NewView replies, terminal resizes and buffer
\* switches, the window height of the current view is the editor's latest
\* terminal row count: a view left in the background before a resize does
\* not keep a stale height when it becomes the current view.
C31_CurrentHeightIsRows ==
    current_view \in DOMAIN views => views[current_view].window.height = size[2]

(***************************************************************************)
(* Claims about the view across cache updates and resizes (SpecView).      *)
(***************************************************************************)
\* C32: the scroll request sent on resize covers the visible slice: its
\* first line is before + window.start(), its last line is not smaller than
\* its first, and every absolute line number before + i, for
\* start <= i < end, lies inside the requested range, for every value of
\* before and after.
C32_ScrollCoversSlice ==
    vop.op = "resize" =>
        LET top == Unwrap(vop.scroll)[1]
            bottom == Unwrap(vop.scroll)[2]
        IN  /\ top = view.cache.before + view.window.start
            /\ bottom >= top
            /\ \A i \in view.window.start..(view.window.end - 1) :
                  /\ top <= view.cache.before + i
                  /\ view.cache.before + i < bottom

\* C33: in every render pass with the gutter displayed, each rendered line
\* number (absolute line + 1) has fewer digits than the current gutter
\* width, so the offset gutter_size - digits never underflows, also in a
\* render where update_window returned early because the cursor line is
\* smaller than the cache's before count.
C33_LineNumberFitsGutter ==
    vop.op = "render" /\ view.cfg.display_gutter =>
        \A r \in Range(RenderLines(view)) :
            r.line_no # None =>
                /\ Digits(Unwrap(r.line_no)) < view.cfg.gutter_size
                /\ Unwrap(r.line_no_offset) >= 0

\* C34: in every reachable state the view's tab size is at least 1, so the
\* tab-stop computation position mod tab_size is always defined: no
\* config-changed notification sets a tab size of 0, or one that truncates
\* to 0 in 16 bits.
C34_TabSizePositive == view.cfg.tab_size >= 1

(***************************************************************************)
(* Claims about closing and switching views (SpecEditor).                  *)
(***************************************************************************)
\* The ids close_view can be called with.
CloseArgs == {None} \cup {Some(i) : i \in 1..MaxViews}

\* C35: once at least one view is open, the set of open views never becomes
\* empty: close_view does nothing when exactly one view is open, and when
\* it closes a view among several it removes exactly that view and no
\* other.
C35_NeverCloseLastView ==
    /\ Created # {} => DOMAIN views # {}
    /\ \A view_id \in CloseArgs :
          LET ed == EdState
              r == CloseViewOf(ed, view_id)
              view_to_close == IF view_id = None THEN ed.current_view ELSE Unwrap(view_id)
          IN  /\ Len(ed.view_order) = 1 => r = ed
              /\ Len(ed.view_order) >= 2 /\ view_to_close \in DOMAIN ed.views =>
                    /\ DOMAIN r.views = (DOMAIN ed.views) \ {view_to_close}
                    /\ Range(r.view_order) = DOMAIN r.views
                    /\ Len(r.view_order) = Len(ed.view_order) - 1
                    /\ \A id \in DOMAIN r.views : r.views[id] = ed.views[id]
              /\ view_to_close \notin DOMAIN ed.views => r = ed

\* Two views were created and one of them has been closed.
C35_Witness ==
    /\ Cardinality(Created) = 2
    /\ Cardinality(DOMAIN views) = 1
    /\ Len(view_order) = 1

(***************************************************************************)
(* Claims about the binding table (SpecBindings).                          *)
(***************************************************************************)
\* C36: after building the binding table, every command recorded as bound
\* (in found_cmds, with its parser's keybinding set) is the value of some
\* chord in the keymap: a later entry that binds a different command to the
\* same chord does not remove the earlier command's only binding.
C36_FoundCommandsAreBound ==
    kcfg.pc = "done" =>
        \A cmd \in Range(kcfg.found_cmds) : ChordsOf(cmd) # {}

(***************************************************************************)
(* Claims about the command prompt (SpecPrompt).                           *)
(***************************************************************************)
\* C37: for the command prompt, after any sequence of inputs: Enter returns
\* exactly one command (Save for "s" or "save", Quit for "q" or "quit",
\* Invalid carrying the typed text otherwise) and leaves the buffer empty;
\* Backspace returns Cancel exactly when the buffer is empty and otherwise
\* removes the last character and returns no command; a character key
\* appends to the buffer and returns no command.
C37_PromptCommands ==
    LET typed == prompt.before
        input == prompt.input
    IN  /\ input = Key("Char", 10) =>
              /\ prompt.keys = <<>>
              /\ typed \in {StrS, StrSave} => prompt.cmd = Some(Cmd("Save", <<None>>))
              /\ typed \in {StrQ, StrQuit} => prompt.cmd = Some(Cmd("Quit", <<>>))
              /\ typed \notin {StrS, StrSave, StrQ, StrQuit} =>
                     prompt.cmd = Some(Cmd("Invalid", <<typed>>))
        /\ input = Key("Backspace", 0) =>
              /\ prompt.cmd = Some(Cmd("Cancel", <<>>)) <=> typed = <<>>
              /\ typed = <<>> => prompt.keys = <<>>
              /\ typed # <<>> =>
                     /\ prompt.keys = SubSeq(typed, 1, Len(typed) - 1)
                     /\ prompt.cmd = None
        /\ input.kind = "Char" /\ input.c # 10 =>
              /\ prompt.keys = Append(typed, input.c)
              /\ prompt.cmd = None

\* "save" was typed and Enter returned Save.
C37_Witness ==
    /\ prompt.input = Key("Char", 10)
    /\ prompt.before = StrSave
    /\ prompt.cmd = Some(Cmd("Save", <<None>>))
    /\ prompt.keys = <<>>

\* next_buffer called k times.
RECURSIVE NextBufferTimes(_, _)
NextBufferTimes(ed, k) == IF k = 0 THEN ed ELSE NextBufferTimes(NextBufferOf(ed), k - 1)

=============================================================================
